---------------------------- MODULE Spec2Model ----------------------------
(***************************************************************************)
(* Model of the sales-ingestion and commission code of the repository:     *)
(*   - the spreadsheet parser (src/lib/prisma.ts, lines 32-273),           *)
(*   - the server actions over the store (src/unnamed/part_001),           *)
(*   - the tables of the store (the SQL migrations).                       *)
(*                                                                         *)
(* Conventions.                                                            *)
(*   Strings are sequences of characters; a character is a one-letter      *)
(*   string, or a named token for a character outside ASCII (AcuteO is     *)
(*   U+00F3, CombAcute is U+0301, Tab is U+0009).  S("abc") turns a        *)
(*   literal into such a sequence.                                         *)
(*   Money is counted in hundredths, so the percentages 0.5 and 0.7 of the *)
(*   code are 50 and 70 and a fixed amount of 8 is 800; plan prices are    *)
(*   whole units, so price * percentage is again in hundredths.            *)
(*   Spreadsheet amounts are counted in thousandths.                       *)
(*   A Date is a number of hours since 1970-01-01T00:00Z; tz is the offset *)
(*   of the server's local time from UTC in hours.                         *)
(***************************************************************************)
EXTENDS Integers, Sequences, FiniteSets, TLC

VARIABLES
    \* ---- one run of parseExcelFile -------------------------------------
    tz,             \* the server's time zone offset, in hours
    sheet,          \* rows of the first sheet, header row first
    ppc,            \* position of the run: "start", "rows", "done"
    colMap,         \* canonical key -> column index (0-based)
    idx,            \* number of data rows processed so far
    sales,          \* ParsedSale list built so far
    skippedRows,
    duplicateRows,
    duplicates,     \* DuplicateInfo list built so far
    seenKeys,       \* dedup keys of the accepted rows
    rowLog,         \* history: the disposition of each processed row
    result,         \* the returned ParseResult, EmptyResult before the return
    \* ---- one call of a pure function -----------------------------------
    call,           \* the arguments of the call
    ret,            \* what it returned, NoRet before the call
    prevCall,       \* the call before this one, NoCall if there was none
    prevRet,
    \* ---- the database and the server actions in progress ----------------
    dbSales,        \* rows of table Sale
    dbSellers,      \* rows of table Seller
    dbPlans,        \* rows of table Plan
    dbUploads,      \* rows of table Upload
    dbRules,        \* rows of table CommissionRule
    dbConfigs,      \* rows of table CommissionConfig
    dbSeq,          \* the last id each table's sequence gave out
    proc,           \* per request in progress: the action, its position, its locals
    started,        \* history: the number of requests started so far
    lastConfig,     \* history: the data of the last completed updateCommissionConfig
    \* ---- the BCV rate cache of the server module -------------------------
    cachedBcvRate,  \* the module's cachedBcvRate: null, or rate and fetchedAt
    clock,          \* Date.now(), in units of five minutes
    bcvCalls,       \* per getBcvRate call in progress: its position, its result
    bcvLog          \* history: the rate and the time of the last successful fetch

parseVars == <<tz, sheet, ppc, colMap, idx, sales, skippedRows, duplicateRows,
               duplicates, seenKeys, rowLog, result>>
callVars  == <<call, ret, prevCall, prevRet>>
dbVars    == <<dbSales, dbSellers, dbPlans, dbUploads, dbRules, dbConfigs, dbSeq,
               proc, started, lastConfig>>
bcvVars   == <<cachedBcvRate, clock, bcvCalls, bcvLog>>
vars      == <<parseVars, callVars, dbVars, bcvVars>>

\* Math.min(10, dataRows.length): the number of data rows sampled.
SampleRows == 10


-----------------------------------------------------------------------------
(***************************************************************************)
(* Strings                                                                 *)
(***************************************************************************)

S(s) == [i \in 1..Len(s) |-> SubSeq(s, i, i)]

\* Characters outside ASCII, and the white space other than the blank.
Tab       == "<TAB>"
CombAcute == "<U+0301>"
AcuteO    == "<o-acute>"
AcuteOUp  == "<O-acute>"
AcuteI    == "<i-acute>"
\* U+034F COMBINING GRAPHEME JOINER, and two Hebrew points (U+05BC, U+05B7).
CGJ       == "<U+034F>"
Dagesh    == "<U+05BC>"
Patah     == "<U+05B7>"

LowerLetters == S("abcdefghijklmnopqrstuvwxyz")
UpperLetters == S("ABCDEFGHIJKLMNOPQRSTUVWXYZ")
Digits       == S("0123456789")

IsSpace(c) == c \in {" ", Tab}
IsDigit(c) == \E i \in 1..10 : Digits[i] = c

toLowerChar(c) ==
    IF \E i \in 1..26 : UpperLetters[i] = c
    THEN LowerLetters[CHOOSE i \in 1..26 : UpperLetters[i] = c]
    ELSE IF c = AcuteOUp THEN AcuteO ELSE c

toUpperChar(c) ==
    IF \E i \in 1..26 : LowerLetters[i] = c
    THEN UpperLetters[CHOOSE i \in 1..26 : LowerLetters[i] = c]
    ELSE IF c = AcuteO THEN AcuteOUp ELSE c

toLowerCase(s) == [i \in 1..Len(s) |-> toLowerChar(s[i])]
toUpperCase(s) == [i \in 1..Len(s) |-> toUpperChar(s[i])]

\* String.prototype.normalize("NFD"): a precomposed letter becomes the base
\* letter followed by the combining mark.
nfdChar(c) ==
    CASE c = AcuteO   -> <<"o", CombAcute>>
      [] c = AcuteOUp -> <<"O", CombAcute>>
      [] c = AcuteI   -> <<"i", CombAcute>>
      [] OTHER        -> <<c>>

RECURSIVE decompose(_)
decompose(s) == IF s = <<>> THEN <<>> ELSE nfdChar(Head(s)) \o decompose(Tail(s))

\* The canonical combining class of a character (0 for a starter; the
\* grapheme joiner is a starter).
ccc(c) ==
    CASE c = CombAcute -> 230
      [] c = Dagesh    -> 21
      [] c = Patah     -> 17
      [] OTHER         -> 0

\* Canonical ordering: adjacent marks are put in the order of their classes;
\* no mark moves across a starter.
OutOfOrder(s, i) == ccc(s[i]) > ccc(s[i + 1]) /\ ccc(s[i + 1]) > 0

RECURSIVE canonicalOrder(_)
canonicalOrder(s) ==
    IF \E i \in 1..(Len(s) - 1) : OutOfOrder(s, i)
    THEN LET i == CHOOSE k \in 1..(Len(s) - 1) : OutOfOrder(s, k)
         IN  canonicalOrder([s EXCEPT ![i] = s[i + 1], ![i + 1] = s[i]])
    ELSE s

normalizeNFD(s) == canonicalOrder(decompose(s))

\* replace(/[\u0300-\u036f]/g, ""): the characters of the block U+0300 to
\* U+036F are dropped, the grapheme joiner among them.
stripMarks(s) == SelectSeq(s, LAMBDA c : c \notin {CombAcute, CGJ})

RECURSIVE trimStart(_)
trimStart(s) == IF s # <<>> /\ IsSpace(Head(s)) THEN trimStart(Tail(s)) ELSE s

RECURSIVE trimEnd(_)
trimEnd(s) ==
    IF s # <<>> /\ IsSpace(s[Len(s)]) THEN trimEnd(SubSeq(s, 1, Len(s) - 1)) ELSE s

trim(s) == trimEnd(trimStart(s))

\* replace(/\s+/g, " "): every maximal run of white space becomes one blank.
RECURSIVE collapseSpaces(_)
collapseSpaces(s) ==
    IF s = <<>> THEN <<>>
    ELSE IF IsSpace(Head(s))
         THEN <<" ">> \o collapseSpaces(trimStart(s))
         ELSE <<Head(s)>> \o collapseSpaces(Tail(s))

normalizeKey(str) ==
    collapseSpaces(trim(toLowerCase(stripMarks(normalizeNFD(str)))))


-----------------------------------------------------------------------------
(***************************************************************************)
(* Cells and their conversion to strings                                   *)
(***************************************************************************)

\* A cell of the grid: a string, a whole number, or nothing (undefined).
Str(s)  == [t |-> "str", s |-> s, n |-> 0]
Num(n)  == [t |-> "num", s |-> <<>>, n |-> n]
Null    == [t |-> "null", s |-> <<>>, n |-> 0]
L(lit)  == Str(S(lit))

RECURSIVE natToStr(_)
natToStr(n) == IF n < 10 THEN <<Digits[n + 1]>>
               ELSE natToStr(n \div 10) \o <<Digits[(n % 10) + 1]>>

\* String(v)
String(v) ==
    CASE v.t = "null" -> S("undefined")
      [] v.t = "num"  -> (IF v.n < 0 THEN <<"-">> \o natToStr(-v.n) ELSE natToStr(v.n))
      [] OTHER        -> v.s

\* Falsy values: null, undefined, 0 and "".
Falsy(v) == v.t = "null" \/ (v.t = "num" /\ v.n = 0) \/ (v.t = "str" /\ v.s = <<>>)

\* String(v || "")
strOrEmpty(v) == IF Falsy(v) THEN <<>> ELSE String(v)

\* A JavaScript number that may be NaN.
NaN      == [nan |-> TRUE, v |-> 0]
Fin(n)   == [nan |-> FALSE, v |-> n]

RECURSIVE digitsToNat(_)
digitsToNat(s) ==
    IF s = <<>> THEN 0
    ELSE 10 * digitsToNat(SubSeq(s, 1, Len(s) - 1))
         + ((CHOOSE i \in 1..10 : Digits[i] = s[Len(s)]) - 1)

AllDigits(s) == \A i \in 1..Len(s) : IsDigit(s[i])

\* Number(s) for a string: white space is trimmed, "" is 0, a run of digits
\* is its value, anything else the model draws is NaN.
Number(s) ==
    LET t == trim(s) IN
    IF t = <<>> THEN Fin(0) ELSE IF AllDigits(t) THEN Fin(digitsToNat(t)) ELSE NaN

\* str.split(sep) for a set of one-character separators.
RECURSIVE split(_, _)
split(s, seps) ==
    IF \A i \in 1..Len(s) : s[i] \notin seps THEN <<s>>
    ELSE LET k == CHOOSE i \in 1..Len(s) :
                     s[i] \in seps /\ \A j \in 1..(i - 1) : s[j] \notin seps
         IN <<SubSeq(s, 1, k - 1)>> \o split(SubSeq(s, k + 1, Len(s)), seps)

-----------------------------------------------------------------------------
(***************************************************************************)
(* Dates                                                                   *)
(***************************************************************************)

Min(a, b) == IF a < b THEN a ELSE b

IsLeap(y) == (y % 4 = 0 /\ y % 100 # 0) \/ y % 400 = 0

DaysInMonth(y, m) ==
    IF m = 2 THEN (IF IsLeap(y) THEN 29 ELSE 28)
    ELSE IF m \in {4, 6, 9, 11} THEN 30 ELSE 31

\* Day number of January 1st of year y (ECMAScript DayFromYear).
DayFromYear(y) ==
    365 * (y - 1970) + ((y - 1969) \div 4) - ((y - 1901) \div 100)
    + ((y - 1601) \div 400)

RECURSIVE daysBeforeMonth(_, _)
daysBeforeMonth(y, m) ==
    IF m = 1 THEN 0 ELSE daysBeforeMonth(y, m - 1) + DaysInMonth(y, m - 1)

\* ECMAScript MakeDay(year, month, date): month is 0-based and may lie
\* outside 0..11, date may lie outside the month; both roll over.
MakeDay(year, month, date) ==
    LET ym == year + (month \div 12)
        mn == month % 12
    IN  DayFromYear(ym) + daysBeforeMonth(ym, mn + 1) + date - 1

\* The calendar date of a day number.  The year lies between the estimates
\* that take every year as 366 and as 365 days long.
yearOfDay(days) ==
    LET lo == Min(1970 + (days \div 366), 1970 + (days \div 365)) - 1
    IN  CHOOSE yy \in lo..(lo + 4) :
            DayFromYear(yy) <= days /\ days < DayFromYear(yy + 1)
monthOfDay(y, r) ==
    CHOOSE mm \in 1..12 :
        daysBeforeMonth(y, mm) <= r /\ r < daysBeforeMonth(y, mm) + DaysInMonth(y, mm)
civilOf(y, r, m) == [y |-> y, m |-> m, d |-> r - daysBeforeMonth(y, m) + 1]
civilInYear(y, r) == civilOf(y, r, monthOfDay(y, r))
civilOnDay(days, y) == civilInYear(y, days - DayFromYear(y))
civilFromDays(days) == civilOnDay(days, yearOfDay(days))

\* A Date: valid with its time value h, or Invalid Date; parseDate's null is
\* NoDate as well.
DateAt(h) == [valid |-> TRUE, h |-> h]
NoDate    == [valid |-> FALSE, h |-> 0]

\* new Date(y, monthIndex, d): local midnight; NaN in, Invalid Date out;
\* a year in 0..99 means 1900 + year.
newDateLocal(y, monthIndex, d, zone) ==
    IF y.nan \/ monthIndex.nan \/ d.nan THEN NoDate
    ELSE LET yy == IF y.v \in 0..99 THEN 1900 + y.v ELSE y.v
         IN  DateAt(24 * MakeDay(yy, monthIndex.v, d.v) - zone)

pad(n, width) ==
    LET s == natToStr(n) IN
    [i \in 1..(width - Len(s)) |-> "0"] \o s

\* date.toISOString().slice(0, 10): the UTC calendar day of the instant.
isoOf(c) == pad(c.y, 4) \o <<"-">> \o pad(c.m, 2) \o <<"-">> \o pad(c.d, 2)
isoDayWithHour(hours) ==
    isoOf(civilFromDays(hours \div 24)) \o <<"T">> \o pad(hours % 24, 2)
isoDay(hours) == isoOf(civilFromDays(hours \div 24))

\* XLSX.SSF.parse_date_code(v) for a whole number: null below 0, else the
\* calendar date of the serial (serial 60 is the 1900-02-29 of the format).
NoCode == [ok |-> FALSE, y |-> 0, m |-> 0, d |-> 0]
Code(y, m, d) == [ok |-> TRUE, y |-> y, m |-> m, d |-> d]
codeOf(c) == Code(c.y, c.m, c.d)

parse_date_code(v) ==
    IF v < 0 \/ v > 2958465 THEN NoCode
    ELSE IF v = 0 THEN Code(1900, 1, 0)
    ELSE IF v = 60 THEN Code(1900, 2, 29)
    ELSE codeOf(civilFromDays(DayFromYear(1900) - 1 + (IF v > 60 THEN v - 1 ELSE v)))

\* new Date(str) of the runtime (V8), for the string shapes the model draws:
\* "YYYY-MM-DD" is that day at 00:00 UTC, "M/D/YYYY" with a month 1..12 and a
\* day 1..31 is local midnight, anything else is Invalid Date.
isoDateOf(iso) ==
    IF /\ Len(iso) = 3 /\ Len(iso[1]) = 4 /\ Len(iso[2]) = 2 /\ Len(iso[3]) = 2
       /\ \A i \in 1..3 : AllDigits(iso[i])
       /\ digitsToNat(iso[2]) \in 1..12
       /\ digitsToNat(iso[3]) \in 1..DaysInMonth(digitsToNat(iso[1]), digitsToNat(iso[2]))
    THEN DateAt(24 * MakeDay(digitsToNat(iso[1]), digitsToNat(iso[2]) - 1,
                             digitsToNat(iso[3])))
    ELSE NoDate
usDateOf(us, zone) ==
    IF /\ Len(us) = 3 /\ \A i \in 1..3 : us[i] # <<>> /\ AllDigits(us[i])
       /\ Len(us[1]) <= 2 /\ Len(us[2]) <= 2 /\ Len(us[3]) = 4
       /\ digitsToNat(us[1]) \in 1..12 /\ digitsToNat(us[2]) \in 1..31
    THEN newDateLocal(Fin(digitsToNat(us[3])), Fin(digitsToNat(us[1]) - 1),
                      Fin(digitsToNat(us[2])), zone)
    ELSE NoDate
firstValid(a, b) == IF a.valid THEN a ELSE b
generalDateParse(str, zone) ==
    firstValid(isoDateOf(split(str, {"-"})), usDateOf(split(str, {"/"}), zone))

minusOne(x) == IF x.nan THEN NaN ELSE Fin(x.v - 1)

\* Lines 142-146: the day/month/year fallback on the split string.
dateOfParts(parts, zone) ==
    IF Len(parts) = 3
    THEN newDateLocal(Number(parts[3]), minusOne(Number(parts[2])),
                      Number(parts[1]), zone)
    ELSE NoDate

\* Lines 136-147: the string path.
parseDateString(str, zone) ==
    firstValid(generalDateParse(str, zone),
               dateOfParts(split(str, {"/", "-", "."}), zone))

\* Lines 129-134 given date, the parse_date_code of a number.
parseDateCoded(value, date, zone) ==
    IF value.t = "num" /\ date.ok
    THEN newDateLocal(Fin(date.y), Fin(date.m - 1), Fin(date.d), zone)
    ELSE parseDateString(trim(String(value)), zone)

parseDate(value, zone) ==
    IF value.t = "null" \/ (value.t = "str" /\ value.s = <<>>) THEN NoDate
    ELSE parseDateCoded(value,
                        IF value.t = "num" THEN parse_date_code(value.n) ELSE NoCode,
                        zone)

\* detectCurrency(paymentMethod)
detectCurrencyUntrimmed(paymentMethod) ==
    LET n == toLowerCase(paymentMethod) IN
    IF n = S("zelle") \/ n = S("efectivo") THEN "USD"
    ELSE IF n = S("efectivo bs") \/ n = S("pago movil") \/ n = S("mixto") THEN "BCV"
    ELSE "USD"
detectCurrency(paymentMethod) ==
    LET n == normalizeKey(paymentMethod) IN
    IF n = S("zelle") \/ n = S("efectivo") THEN "USD"
    ELSE IF n = S("efectivo bs") \/ n = S("pago movil") \/ n = S("mixto") THEN "BCV"
    ELSE "USD"

\* parseAmount(montoValue), in thousandths.  parseFloat reads the longest
\* prefix "digits [. digits]"; the model keeps three decimals of it.
onlyAmountChars(s) == SelectSeq(s, LAMBDA c : IsDigit(c) \/ c = "." \/ c = ",")

\* str.replace(",", "."): the first comma only.
replaceFirstComma(s) ==
    IF \A i \in 1..Len(s) : s[i] # "," THEN s
    ELSE LET k == CHOOSE i \in 1..Len(s) : s[i] = "," /\ \A j \in 1..(i - 1) : s[j] # ","
         IN  [i \in 1..Len(s) |-> IF i = k THEN "." ELSE s[i]]

RECURSIVE leadingDigits(_)
leadingDigits(s) ==
    IF s # <<>> /\ IsDigit(Head(s)) THEN <<Head(s)>> \o leadingDigits(Tail(s)) ELSE <<>>

parseFloat(s) ==
    LET ip   == leadingDigits(s)
        rest == SubSeq(s, Len(ip) + 1, Len(s))
        fp   == IF rest # <<>> /\ Head(rest) = "." THEN leadingDigits(Tail(rest)) ELSE <<>>
        fp3  == SubSeq(fp \o <<"0", "0", "0">>, 1, 3)
    IN  IF ip = <<>> /\ fp = <<>> THEN NaN
        ELSE Fin(1000 * digitsToNat(ip) + digitsToNat(fp3))

\* parseAmount without the "|| 0" of line 152: -1 stands for NaN.
parseAmountKeepNaN(montoValue) ==
    IF montoValue.t = "num" THEN 1000 * montoValue.n
    ELSE LET f == parseFloat(replaceFirstComma(onlyAmountChars(
                      IF Falsy(montoValue) THEN S("0") ELSE String(montoValue))))
         IN  IF f.nan THEN -1 ELSE f.v
parseAmount(montoValue) ==
    IF montoValue.t = "num" THEN 1000 * montoValue.n
    ELSE LET str     == IF Falsy(montoValue) THEN S("0") ELSE String(montoValue)
             cleaned == replaceFirstComma(onlyAmountChars(str))
             f       == parseFloat(cleaned)
         IN  IF f.nan \/ f.v = 0 THEN 0 ELSE f.v

-----------------------------------------------------------------------------
(***************************************************************************)
(* Header mapping                                                          *)
(***************************************************************************)

COLUMN_MAP ==
    { <<S("fecha"), "fecha">>, <<S("nombre"), "nombre">>, <<S("zona"), "zona">>,
      <<S("gratis"), "gratis">>, <<S("plan"), "plan">>, <<S("vendedor"), "vendedor">>,
      <<S("equipo"), "equipo">>,
      <<S("dinero recibido wellcomm"), "dineroRecibido">>,
      <<S("pagado comision vendedores"), "pagadoComisionVendedores">>,
      <<S("pagada comision instaladores"), "pagadaComisionInstaladores">>,
      <<S("medio de pago"), "medioPago">>, <<S("metodo de pago"), "medioPago">>,
      <<S("forma de pago"), "medioPago">>, <<S("tipo de pago"), "medioPago">>,
      <<S("pago"), "medioPago">>,
      <<S("monto suscripcion"), "montoSuscripcion">>,
      <<S("quien recibe"), "quienRecibe">>,
      <<S("referencia de registro"), "referenciaRegistro">>,
      <<S("revision gabriel johalis"), "revisionGabriel">> }

\* The set holds the strings as written in the source; a normalized cell has
\* no accent left, so the two accented entries never match.
KNOWN_PAYMENT_VALUES ==
    { S("zelle"), S("efectivo"), S("efectivo bs"), S("efectivo bolivares"),
      S("efectivo bol") \o <<AcuteI>> \o S("vares"),
      S("pago movil"), S("pago m") \o <<AcuteO>> \o S("vil"), S("mixto") }

\* Column indexes are 0-based, as in the source.
cellAt(row, i) == IF i + 1 \in 1..Len(row) THEN row[i + 1] ELSE Null

\* String(h) over the header row, then (headers[i] || "").toString(): an empty
\* header cell is a hole of the array and gives "".
headerText(cell) == IF cell.t = "null" THEN <<>> ELSE String(cell)

setKey(map, key, i) == [k \in DOMAIN map \cup {key} |-> IF k = key THEN i ELSE map[k]]

\* The loop without the test of montoFound: every header sets its key.
RECURSIVE normalizeHeadersFromLastWins(_, _, _, _)
normalizeHeadersFromLastWins(headers, i, map, montoFound) ==
    IF i >= Len(headers) THEN map
    ELSE LET raw == normalizeKey(headerText(cellAt(headers, i)))
         IN  IF \E e \in COLUMN_MAP : e[1] = raw
             THEN normalizeHeadersFromLastWins(headers, i + 1,
                      setKey(map, (CHOOSE e \in COLUMN_MAP : e[1] = raw)[2], i),
                      montoFound)
             ELSE normalizeHeadersFromLastWins(headers, i + 1, map, montoFound)

RECURSIVE normalizeHeadersFrom(_, _, _, _)
normalizeHeadersFrom(headers, i, map, montoFound) ==
    IF i >= Len(headers) THEN map
    ELSE LET raw == normalizeKey(headerText(cellAt(headers, i)))
         IN  IF \E e \in COLUMN_MAP : e[1] = raw
             THEN LET mapped == (CHOOSE e \in COLUMN_MAP : e[1] = raw)[2]
                  IN  IF mapped = "montoSuscripcion" /\ montoFound
                      THEN normalizeHeadersFrom(headers, i + 1, map, montoFound)
                      ELSE normalizeHeadersFrom(headers, i + 1, setKey(map, mapped, i),
                                                montoFound \/ mapped = "montoSuscripcion")
             ELSE normalizeHeadersFrom(headers, i + 1, map, montoFound)

normalizeHeaders(headers) == normalizeHeadersFrom(headers, 0, <<>>, FALSE)

\* The override with every data row sampled.
paymentColumnOverrideAllRows(map, dataRows) ==
    IF "zona" \in DOMAIN map /\ Len(dataRows) > 0
    THEN IF \E r \in 1..Len(dataRows) :
                normalizeKey(strOrEmpty(cellAt(dataRows[r], map["zona"] + 1)))
                    \in KNOWN_PAYMENT_VALUES
         THEN setKey(map, "medioPago", map["zona"] + 1)
         ELSE map
    ELSE map

\* Lines 171-183: the column after "zona" is taken as the payment method
\* when one of the first SampleRows data rows holds a known value there.
paymentColumnOverride(map, dataRows) ==
    IF "zona" \in DOMAIN map /\ Len(dataRows) > 0
    THEN LET nextCol == map["zona"] + 1
             samplesToCheck == Min(SampleRows, Len(dataRows))
         IN  IF \E r \in 1..samplesToCheck :
                    normalizeKey(strOrEmpty(cellAt(dataRows[r], nextCol)))
                        \in KNOWN_PAYMENT_VALUES
             THEN setKey(map, "medioPago", nextCol)
             ELSE map
    ELSE map

-----------------------------------------------------------------------------
(***************************************************************************)
(* parseExcelFile                                                          *)
(***************************************************************************)

getCell(row, key, map) == IF key \in DOMAIN map THEN cellAt(row, map[key]) ELSE Null

\* `${customerName}|${plan}|${vendedor}|${zone}|${dateKey}`
dedupKey(customerName, plan, vendedor, zone, dateKey) ==
    customerName \o <<"|">> \o plan \o <<"|">> \o vendedor \o <<"|">> \o zone
    \o <<"|">> \o dateKey

\* The accumulators of the loop over the data rows.
EmptyRun == [sales |-> <<>>, skippedRows |-> 0, duplicateRows |-> 0,
             duplicates |-> <<>>, seenKeys |-> {}]

PAGADO == S("PAGADO")

\* skippedRows++ (lines 202, 208, 214)
countSkippedLost(run) == run
countSkipped(run) == [run EXCEPT !.skippedRows = @ + 1]

\* The duplicate counted and dropped from the list.
recordDuplicateCountOnly(run, info) == [run EXCEPT !.duplicateRows = @ + 1]
\* Lines 225-233: the duplicate is counted and listed.
recordDuplicate(run, info) ==
    [run EXCEPT !.duplicateRows = @ + 1, !.duplicates = Append(@, info)]

\* Lines 236 and 249-260: the key is marked as seen and the sale is kept.
acceptSaleKeyForgotten(run, key, sale) == [run EXCEPT !.sales = Append(@, sale)]
acceptSale(run, key, sale) ==
    [run EXCEPT !.seenKeys = @ \cup {key}, !.sales = Append(@, sale)]

\* What lines 200-226 and 241-247 read from a data row.
rowFields(row, map, zone) ==
    [dinero   |-> toUpperCase(trim(strOrEmpty(getCell(row, "dineroRecibido", map)))),
     vendedor |-> trim(strOrEmpty(getCell(row, "vendedor", map))),
     fecha    |-> parseDate(getCell(row, "fecha", map), zone),
     customerName  |-> trim(strOrEmpty(getCell(row, "nombre", map))),
     zone          |-> trim(strOrEmpty(getCell(row, "zona", map))),
     plan          |-> trim(strOrEmpty(getCell(row, "plan", map))),
     refCode       |-> trim(strOrEmpty(getCell(row, "referenciaRegistro", map))),
     gratisValue   |-> toUpperCase(trim(strOrEmpty(getCell(row, "gratis", map)))),
     paymentMethod |-> trim(strOrEmpty(getCell(row, "medioPago", map))),
     subscriptionAmount |-> parseAmount(getCell(row, "montoSuscripcion", map))]

\* The sale with every row of a filled gratis cell taken as FREE.
saleOfAnyGratisText(f) ==
    [transactionDate |-> f.fecha.h,
     customerName |-> f.customerName,
     sellerName |-> f.vendedor,
     zone |-> f.zone,
     plan |-> f.plan,
     paymentMethod |-> f.paymentMethod,
     referenceCode |-> IF f.refCode = <<>> THEN Null ELSE Str(f.refCode),
     installationType |-> IF f.gratisValue # <<>> THEN "FREE" ELSE "PAID",
     currency |-> detectCurrency(f.paymentMethod),
     subscriptionAmount |-> f.subscriptionAmount]

\* Lines 249-260: the sale of an accepted row.
saleOf(f) ==
    [transactionDate |-> f.fecha.h,
     customerName |-> f.customerName,
     sellerName |-> f.vendedor,
     zone |-> f.zone,
     plan |-> f.plan,
     paymentMethod |-> f.paymentMethod,
     referenceCode |-> IF f.refCode = <<>> THEN Null ELSE Str(f.refCode),
     installationType |-> IF f.gratisValue = S("GRATIS") THEN "FREE" ELSE "PAID",
     currency |-> detectCurrency(f.paymentMethod),
     subscriptionAmount |-> f.subscriptionAmount]

\* Lines 228-239: the duplicate test, dateKey being the ISO day of the date.
parseRowKeyed(run, f, i, dateKey) ==
    IF dedupKey(f.customerName, f.plan, f.vendedor, f.zone, dateKey) \in run.seenKeys
    THEN recordDuplicate(run, [rowNumber |-> i + 2,
                               customerName |-> f.customerName,
                               sellerName |-> f.vendedor,
                               plan |-> f.plan,
                               zone |-> f.zone,
                               date |-> dateKey])
    ELSE acceptSale(run,
                    dedupKey(f.customerName, f.plan, f.vendedor, f.zone, dateKey),
                    saleOf(f))

\* The iteration with the key marked as seen before the three checks.
parseRowWithKeyMarkedFirst(run, f, i) ==
    IF ~f.fecha.valid THEN countSkipped(run)
    ELSE IF f.dinero # PAGADO \/ f.vendedor = <<>>
         THEN [countSkipped(run) EXCEPT !.seenKeys = @ \cup
                  {dedupKey(f.customerName, f.plan, f.vendedor, f.zone, isoDay(f.fecha.h))}]
         ELSE parseRowKeyed(run, f, i, isoDay(f.fecha.h))

\* One iteration of the loop of lines 197-261 on data row number i (0-based),
\* f being what the row holds (rowFields).
parseRowWith(run, f, i) ==
    IF f.dinero # PAGADO THEN countSkipped(run)
    ELSE IF f.vendedor = <<>> THEN countSkipped(run)
    ELSE IF ~f.fecha.valid THEN countSkipped(run)
    ELSE parseRowKeyed(run, f, i, isoDay(f.fecha.h))

parseRow(run, row, i, map, zone) == parseRowWith(run, rowFields(row, map, zone), i)

\* The ParseResult of lines 160-162 and 263-272.
EmptyResult ==
    [sales |-> <<>>, totalRows |-> 0, validRows |-> 0, skippedRows |-> 0,
     duplicateRows |-> 0, duplicates |-> <<>>, detectedHeaders |-> <<>>,
     mappedColumns |-> <<>>]

\* The return of line 161.
tooFewRowsCountingHeader(rows) == [EmptyResult EXCEPT !.totalRows = Len(rows)]
tooFewRows(rows) == EmptyResult

resultOf(run, rows, map) ==
    [sales |-> run.sales, totalRows |-> Len(rows) - 1, validRows |-> Len(run.sales),
     skippedRows |-> run.skippedRows, duplicateRows |-> run.duplicateRows,
     duplicates |-> run.duplicates,
     detectedHeaders |-> [i \in 1..Len(rows[1]) |-> headerText(rows[1][i])],
     mappedColumns |-> map]

columnsOf(rows) == paymentColumnOverride(normalizeHeaders(rows[1]), Tail(rows))

RECURSIVE parseRowsFrom(_, _, _, _, _)
parseRowsFrom(run, dataRows, i, map, zone) ==
    IF i >= Len(dataRows) THEN run
    ELSE parseRowsFrom(parseRow(run, dataRows[i + 1], i, map, zone), dataRows, i + 1,
                       map, zone)

\* parseExcelFile as a function of the rows of the first sheet.
parseExcelFile(rows, zone) ==
    IF Len(rows) < 2 THEN tooFewRows(rows)
    ELSE resultOf(parseRowsFrom(EmptyRun, Tail(rows), 0, columnsOf(rows), zone),
                  rows, columnsOf(rows))

-----------------------------------------------------------------------------
(***************************************************************************)
(* The workbooks the parser is run on                                      *)
(***************************************************************************)

\* The header row of the monthly sheet: the payment method sits in the
\* unnamed column after "Zona".
HeaderRow ==
    << L("Fecha"), L("Nombre"), L(" ZONA "), Null, L("Gratis"), L("Plan"), L("Vendedor"),
       L("Dinero  Recibido Wellcomm"),
       Str(S("Monto Suscripci") \o <<AcuteO>> \o S("n")),
       L("Referencia de Registro") >>

Row(fecha, nombre, zona, pago, gratis, plan, vendedor, dinero, monto, ref) ==
    <<fecha, nombre, zona, pago, gratis, plan, vendedor, dinero, monto, ref>>

RowJuan ==
    Row(L("15/03/2024"), L("Juan"), L("Norte"), L("ZELLE"), L(""), L("R100"),
        L("Ana"), L("PAGADO"), Num(20), L("REF1"))
\* The same customer, plan, seller, zone and day; everything else differs.
\* Serial 45366 is 2024-03-15.
RowJuanAgain ==
    Row(Num(45366), L(" Juan "), L("Norte "), Str(S("Pago M") \o <<AcuteO>> \o S("vil")),
        L(" gratis "), L("R100"), L(" Ana"), L(" pagado "), L("Bs 25,5"), L("REF2"))
\* The same five fields, payment not confirmed.
RowJuanPending ==
    Row(L("15/03/2024"), L("Juan"), L("Norte"), L("ZELLE"), Null, L("R100"),
        L("Ana"), L("PENDIENTE"), Num(20), L("REF1"))
\* The same but for the seller, who is missing.
RowJuanNoSeller ==
    Row(L("15/03/2024"), L("Juan"), L("Norte"), L("ZELLE"), Null, L("R100"),
        L("  "), L("PAGADO"), Num(20), Null)
\* The same but for the date, which does not parse.
RowJuanNoDate ==
    Row(L("quince"), L("Juan"), L("Norte"), L("ZELLE"), Null, L("R100"),
        L("Ana"), L("PAGADO"), Null, L("REF1"))
\* The same calendar day written as an ISO date (00:00 UTC, not local).
RowJuanIso ==
    Row(L("2024-03-15"), L("Juan"), L("Norte"), L("MIXTO"), L("Gratis 50%"), L("R100"),
        L("Ana"), L("PAGADO"), L("abc"), Null)
\* Another sale.
RowLuis ==
    Row(L("16/03/2024"), L("Luis"), L("Sur"), L("EFECTIVO BS"), Null, L("R200"),
        L("Bob"), L("Pagado"), Num(-5), L("REF3"))

RowPool ==
    {RowJuan, RowJuanAgain, RowJuanPending, RowJuanNoSeller, RowJuanNoDate,
     RowJuanIso, RowLuis}

MaxRows == 3

RECURSIVE SeqsUpTo(_, _)
SeqsUpTo(pool, n) ==
    IF n = 0 THEN {<<>>}
    ELSE LET shorter == SeqsUpTo(pool, n - 1)
         IN  shorter \cup {Append(s, r) : s \in shorter, r \in pool}

\* An empty sheet, a sheet of the header row only, and the header row
\* followed by up to MaxRows data rows.
Sheets == {<<>>} \cup {<<HeaderRow>> \o rs : rs \in SeqsUpTo(RowPool, MaxRows)}

\* Caracas, and a zone east of Greenwich.
TimeZones == {-4, 2}

-----------------------------------------------------------------------------
(***************************************************************************)
(* Specification SpecParse: one run of parseExcelFile, row by row          *)
(***************************************************************************)

NoCall == [fn |-> "none"]

NoRet == [fn |-> "none", out |-> "none"]

CallIdle ==
    /\ call = NoCall /\ ret = NoRet /\ prevCall = NoCall /\ prevRet = NoRet

\* No table has a row, no request is in progress.
NoConfig == [set |-> FALSE]
DbIdle ==
    /\ dbSales = {} /\ dbSellers = {} /\ dbPlans = {} /\ dbUploads = {}
    /\ dbRules = {} /\ dbConfigs = {}
    /\ dbSeq = [sale |-> 0, seller |-> 0, plan |-> 0, upload |-> 0, rule |-> 0, config |-> 0]
    /\ proc = <<>> /\ started = 0 /\ lastConfig = NoConfig

\* No rate is cached, no call of getBcvRate is in progress.
NoRate == [present |-> FALSE, rate |-> 0, fetchedAt |-> 0]
BcvIdle ==
    /\ cachedBcvRate = NoRate /\ clock = 0 /\ bcvCalls = <<>> /\ bcvLog = NoRate

ParseIdle ==
    /\ tz = 0 /\ sheet = <<>> /\ ppc = "idle" /\ colMap = <<>> /\ idx = 0
    /\ sales = <<>> /\ skippedRows = 0 /\ duplicateRows = 0 /\ duplicates = <<>>
    /\ seenKeys = {} /\ rowLog = <<>> /\ result = EmptyResult

InitParse ==
    /\ tz \in TimeZones
    /\ sheet \in Sheets
    /\ ppc = "start"
    /\ colMap = <<>>
    /\ idx = 0
    /\ sales = <<>> /\ skippedRows = 0 /\ duplicateRows = 0 /\ duplicates = <<>>
    /\ seenKeys = {}
    /\ rowLog = <<>>
    /\ result = EmptyResult
    /\ CallIdle
    /\ DbIdle
    /\ BcvIdle

run == [sales |-> sales, skippedRows |-> skippedRows, duplicateRows |-> duplicateRows,
        duplicates |-> duplicates, seenKeys |-> seenKeys]

\* Lines 156-189: the sheet is read; fewer than 2 rows end the run at once.
ParseStart ==
    /\ ppc = "start"
    /\ IF Len(sheet) < 2
       THEN /\ result' = tooFewRows(sheet)
            /\ ppc' = "done"
            /\ colMap' = colMap
       ELSE /\ colMap' = columnsOf(sheet)
            /\ ppc' = "rows"
            /\ result' = result
    /\ UNCHANGED <<tz, sheet, idx, sales, skippedRows, duplicateRows, duplicates,
                   seenKeys, rowLog, callVars, dbVars, bcvVars>>

\* The loop's variables take the values of after; rowLog records what the
\* iteration did to each counter and list.
RunBecomes(after) ==
    /\ sales' = after.sales
    /\ skippedRows' = after.skippedRows
    /\ duplicateRows' = after.duplicateRows
    /\ duplicates' = after.duplicates
    /\ seenKeys' = after.seenKeys
    /\ rowLog' = Append(rowLog,
           [accepted  |-> Len(after.sales) - Len(sales),
            skipped   |-> after.skippedRows - skippedRows,
            duplicate |-> after.duplicateRows - duplicateRows,
            listed    |-> Len(after.duplicates) - Len(duplicates)])

\* Lines 197-261: the next data row.
ParseRow ==
    /\ ppc = "rows"
    /\ idx < Len(sheet) - 1
    /\ RunBecomes(parseRow(run, sheet[idx + 2], idx, colMap, tz))
    /\ idx' = idx + 1
    /\ UNCHANGED <<tz, sheet, ppc, colMap, result, callVars, dbVars, bcvVars>>

\* Lines 263-272.
ParseReturn ==
    /\ ppc = "rows"
    /\ idx = Len(sheet) - 1
    /\ result' = resultOf(run, sheet, colMap)
    /\ ppc' = "done"
    /\ UNCHANGED <<tz, sheet, colMap, idx, sales, skippedRows, duplicateRows,
                   duplicates, seenKeys, rowLog, callVars, dbVars, bcvVars>>

NextParse == ParseStart \/ ParseRow \/ ParseReturn

SpecParse == InitParse /\ [][NextParse]_vars

-----------------------------------------------------------------------------
(***************************************************************************)
(* Claims about parseExcelFile (checked under SpecParse)                   *)
(***************************************************************************)

\* The cells of a data row of the sheets above, read at the columns of
\* HeaderRow as a reader of the sheet sees them.
RowDate(r)     == parseDate(cellAt(r, 0), tz)
RowCustomer(r) == trim(strOrEmpty(cellAt(r, 1)))
RowZone(r)     == trim(strOrEmpty(cellAt(r, 2)))
RowPlan(r)     == trim(strOrEmpty(cellAt(r, 5)))
RowSeller(r)   == trim(strOrEmpty(cellAt(r, 6)))
RowPaid(r)     == toUpperCase(trim(strOrEmpty(cellAt(r, 7)))) = S("PAGADO")
RowOthers(r)   == <<cellAt(r, 3), cellAt(r, 4), cellAt(r, 8), cellAt(r, 9)>>

DataRow(i) == sheet[i + 1]          \* the i-th data row, i in 1..idx

\* Identical (customerName, plan, sellerName, zone, date-day).
SameFive(r1, r2) ==
    /\ RowCustomer(r1) = RowCustomer(r2)
    /\ RowPlan(r1) = RowPlan(r2)
    /\ RowSeller(r1) = RowSeller(r2)
    /\ RowZone(r1) = RowZone(r2)
    /\ RowDate(r1).valid /\ RowDate(r2).valid
    /\ RowDate(r1).h \div 24 = RowDate(r2).h \div 24

PassesChecks(r) == RowPaid(r) /\ RowSeller(r) # <<>> /\ RowDate(r).valid

SaleKey(s) == <<s.customerName, s.plan, s.sellerName, s.zone, s.transactionDate \div 24>>

\* C1: the returned counts add up, totalRows = validRows + skippedRows +
\* duplicateRows, and totalRows is the number of rows after the header row;
\* during the run every processed row is in exactly one of the three counts.
C1_CountsAddUp ==
    /\ ppc = "rows" => idx = Len(sales) + skippedRows + duplicateRows
    /\ ppc = "done" =>
         /\ result.totalRows
              = result.validRows + result.skippedRows + result.duplicateRows
         /\ result.totalRows = (IF Len(sheet) = 0 THEN 0 ELSE Len(sheet) - 1)
         /\ result.validRows = Len(result.sales)

C1_Witness ==
    /\ ppc = "done"
    /\ result.validRows > 0 /\ result.skippedRows > 0 /\ result.duplicateRows > 0

\* C2: after every processed row, no two transactions of the sales list have
\* the same dedup key customerName|plan|sellerName|zone|date-day.
C2_NoTwoSalesShareKey ==
    \A i, j \in 1..Len(sales) :
        i # j =>
            /\ SaleKey(sales[i]) # SaleKey(sales[j])
            /\ dedupKey(sales[i].customerName, sales[i].plan, sales[i].sellerName,
                        sales[i].zone, isoDay(sales[i].transactionDate))
               # dedupKey(sales[j].customerName, sales[j].plan, sales[j].sellerName,
                          sales[j].zone, isoDay(sales[j].transactionDate))

\* Before the return: two sales are kept and a row with a seen key was refused.
C2_Witness == ppc = "rows" /\ Len(sales) >= 2 /\ duplicateRows >= 1

C10_FewRowsGiveEmptyResult ==
    (ppc = "done" /\ Len(sheet) < 2) =>
        /\ result.totalRows = 0 /\ result.validRows = 0
        /\ result.skippedRows = 0 /\ result.duplicateRows = 0
        /\ result.sales = <<>> /\ result.duplicates = <<>>

C10_Witness == ppc = "done" /\ Len(sheet) = 1

\* The amount cell of a data row, and an amount cell that is text without a
\* digit.
RowAmount(r) == cellAt(r, 8)
Unparseable(cell) == cell.t = "str" /\ \A k \in 1..Len(cell.s) : ~IsDigit(cell.s[k])

\* The number of rows accepted among the first i data rows: the place in
\* sales of the sale of row i when row i was accepted.
AcceptedUpTo(i) == Cardinality({k \in 1..i : rowLog[k].accepted = 1})

\* Data row i passes the dedup check: no earlier row that passed the three
\* checks has its five key fields.
FirstOfKey(i) ==
    \A j \in 1..(i - 1) :
        ~(PassesChecks(DataRow(j)) /\ SameFive(DataRow(j), DataRow(i)))

\* The data rows of the sheet without the i-th of them, and the loop run on
\* them with the column map of the sheet.
DataRowsWithout(i) == SubSeq(sheet, 2, i) \o SubSeq(sheet, i + 2, Len(sheet))
RunWithout(i) == parseRowsFrom(EmptyRun, DataRowsWithout(i), 0, colMap, tz)

\* C11: a row whose date cell does not parse is counted in skippedRows and in
\* nothing else; a row that passes the payment, seller, date and dedup checks
\* and whose amount cell is text without a digit is accepted with
\* subscriptionAmount 0; and the run ends with the sales, and the count of
\* duplicates, that the other rows give without the row of the bad date.
C11_BadCellNeverAborts ==
    /\ \A i \in 1..idx :
         ~RowDate(DataRow(i)).valid =>
             rowLog[i] = [accepted |-> 0, skipped |-> 1, duplicate |-> 0, listed |-> 0]
    /\ \A i \in 1..idx :
         (/\ PassesChecks(DataRow(i)) /\ FirstOfKey(i)
          /\ Unparseable(RowAmount(DataRow(i)))) =>
             /\ rowLog[i].accepted = 1
             /\ sales[AcceptedUpTo(i)].subscriptionAmount = 0
    /\ ppc = "done" =>
         \A i \in 1..idx :
             ~RowDate(DataRow(i)).valid =>
                 /\ result.sales = RunWithout(i).sales
                 /\ result.skippedRows = RunWithout(i).skippedRows + 1
                 /\ result.duplicateRows = RunWithout(i).duplicateRows

C11_Witness ==
    /\ ppc = "done" /\ idx = 3
    /\ RowPaid(DataRow(1)) /\ RowSeller(DataRow(1)) # <<>> /\ ~RowDate(DataRow(1)).valid
    /\ PassesChecks(DataRow(2)) /\ Unparseable(RowAmount(DataRow(2)))
    /\ rowLog[2].accepted = 1 /\ result.sales[1].subscriptionAmount = 0
    /\ rowLog[3].accepted = 1

\* C12: every transaction parseExcelFile returns has subscriptionAmount >= 0,
\* whatever its amount cell holds.
C12_AmountsNonNegative ==
    ppc = "done" =>
        \A k \in 1..Len(result.sales) : result.sales[k].subscriptionAmount >= 0

SkippedOnly == [accepted |-> 0, skipped |-> 1, duplicate |-> 0, listed |-> 0]

\* C16: every processed row is counted in exactly one of accepted, skippedRows
\* and duplicateRows; a row that is not PAGADO, has no seller or has no date
\* is counted in skippedRows only, whatever the rows before it, and it leaves
\* the seen keys as they were: a row that passes the three checks and is the
\* first such row of its key is accepted, whatever skipped rows precede it.
C16_SkippedRowsMarkNoKey ==
    /\ Len(rowLog) = idx
    /\ \A i \in 1..idx :
           /\ rowLog[i].accepted + rowLog[i].skipped + rowLog[i].duplicate = 1
           /\ ~PassesChecks(DataRow(i)) => rowLog[i] = SkippedOnly
           /\ PassesChecks(DataRow(i)) => rowLog[i].skipped = 0
           /\ (PassesChecks(DataRow(i)) /\ FirstOfKey(i)) => rowLog[i].accepted = 1
    /\ Cardinality(seenKeys) = Len(sales)

\* A skipped row, then an accepted row of the same customer, plan, seller,
\* zone and day, then a row of these five fields that is skipped, not refused
\* as a duplicate.
C16_Witness ==
    /\ idx = 3
    /\ ~RowPaid(DataRow(1)) /\ RowDate(DataRow(1)).valid
    /\ SameFive(DataRow(1), DataRow(2)) /\ PassesChecks(DataRow(2))
    /\ rowLog[1] = SkippedOnly /\ rowLog[2].accepted = 1
    /\ RowSeller(DataRow(3)) = <<>> /\ RowPaid(DataRow(3))
    /\ RowCustomer(DataRow(3)) = RowCustomer(DataRow(2))
    /\ RowDate(DataRow(3)) = RowDate(DataRow(2))
    /\ rowLog[3] = SkippedOnly /\ duplicates = <<>>

\* The entry of the duplicates list for data row j (1-based), as a reader of
\* the sheet writes it: sheet row j + 1, the row's four names and the day of
\* its date in the ISO form.
EntryOfRow(j) ==
    [rowNumber |-> j + 1,
     customerName |-> RowCustomer(DataRow(j)),
     sellerName |-> RowSeller(DataRow(j)),
     plan |-> RowPlan(DataRow(j)),
     zone |-> RowZone(DataRow(j)),
     date |-> isoOf(civilFromDays(RowDate(DataRow(j)).h \div 24))]

DuplicateRowsUpTo(i) == {j \in 1..i : rowLog[j].duplicate = 1}

RowGratis(r) == cellAt(r, 4)

\* The sale of data row i, an accepted row.
SaleOfRow(i) == sales[AcceptedUpTo(i)]

\* C18: the sale of an accepted row is FREE when the gratis cell of the row,
\* trimmed and in upper case, is GRATIS, and PAID for every other content of
\* the cell, the empty and the missing cell included.
C18_FreeIffGratis ==
    \A i \in 1..idx :
        rowLog[i].accepted = 1 =>
            /\ SaleOfRow(i).installationType \in {"FREE", "PAID"}
            /\ SaleOfRow(i).installationType = "FREE"
                   <=> /\ RowGratis(DataRow(i)).t = "str"
                       /\ toUpperCase(trim(RowGratis(DataRow(i)).s)) = S("GRATIS")
            /\ RowGratis(DataRow(i)) \in {Null, L("")}
                   => SaleOfRow(i).installationType = "PAID"

\* Three accepted rows: a gratis cell that is GRATIS but for its case and the
\* blanks around it, a cell of other text, and a missing cell.
C18_Witness ==
    /\ idx = 3 /\ Len(sales) = 3
    /\ RowGratis(DataRow(1)) = L(" gratis ") /\ sales[1].installationType = "FREE"
    /\ RowGratis(DataRow(2)) = L("Gratis 50%") /\ sales[2].installationType = "PAID"
    /\ RowGratis(DataRow(3)) = Null /\ sales[3].installationType = "PAID"

-----------------------------------------------------------------------------
(***************************************************************************)
(* Specification SpecColumns: parseExcelFile on sheets of other header     *)
(* rows, and of more data rows than the SampleRows that are sampled        *)
(***************************************************************************)

MaxHeaders == 3

MontoAccented == Str(S("Monto Suscripci") \o <<AcuteO>> \o S("n"))

HeaderCells ==
    { L("Zona"), MontoAccented, L(" MONTO  SUSCRIPCION"), L("Forma de Pago") }

HeaderRows == SeqsUpTo(HeaderCells, MaxHeaders)

\* A data row that holds cell in each of its columns.
RowOf(cell) == [c \in 1..(MaxHeaders + 1) |-> cell]

PaymentCell == Str(S(" Pago  M") \o <<AcuteOUp>> \o S("vil "))
OtherCell   == L("Transferencia")

\* n data rows, the k-th of them (if any) the only one of a known payment
\* value.
DataRowsWith(n, k) == [r \in 1..n |-> IF r = k THEN RowOf(PaymentCell) ELSE RowOf(OtherCell)]

DataRowSets ==
    { DataRowsWith(1, 0), DataRowsWith(1, 1),
      DataRowsWith(SampleRows, SampleRows),
      DataRowsWith(SampleRows + 1, SampleRows),
      DataRowsWith(SampleRows + 1, SampleRows + 1) }

ColumnSheets == {<<h>> \o rows : h \in HeaderRows, rows \in DataRowSets}

InitColumns ==
    /\ tz = -4
    /\ sheet \in ColumnSheets
    /\ ppc = "start"
    /\ colMap = <<>>
    /\ idx = 0
    /\ sales = <<>> /\ skippedRows = 0 /\ duplicateRows = 0 /\ duplicates = <<>>
    /\ seenKeys = {}
    /\ rowLog = <<>>
    /\ result = EmptyResult
    /\ CallIdle
    /\ DbIdle
    /\ BcvIdle

SpecColumns == InitColumns /\ [][NextParse]_vars

\* The 0-based indexes of the header cells that normalize to the header of the
\* subscription amount.
MontoHeaders ==
    {i \in 0..(Len(sheet[1]) - 1) :
        normalizeKey(headerText(cellAt(sheet[1], i))) = S("monto suscripcion")}

Least(set) == CHOOSE i \in set : \A j \in set : i <= j

MontoMappedToLeast(indexes) ==
    IF indexes = {}
    THEN "montoSuscripcion" \notin DOMAIN colMap
    ELSE /\ "montoSuscripcion" \in DOMAIN colMap
         /\ colMap["montoSuscripcion"] = Least(indexes)

\* C19: when several header cells normalize to the subscription-amount
\* header, montoSuscripcion is mapped to the index of the first of them,
\* whatever headers lie between them (and it is not mapped when there is none).
C19_FirstMontoHeaderWins ==
    (ppc \in {"rows", "done"} /\ Len(sheet) >= 2) => MontoMappedToLeast(MontoHeaders)

\* Two spellings of the header with the zona header between them.
C19_Witness ==
    /\ ppc = "done" /\ Len(sheet[1]) = 3
    /\ MontoHeaders = {0, 2} /\ sheet[1][1] # sheet[1][3]
    /\ "zona" \in DOMAIN colMap /\ colMap["zona"] = 1
    /\ colMap["montoSuscripcion"] = 0
    /\ result.mappedColumns = colMap

\* The payment-method tokens.
PaymentTokens ==
    { S("zelle"), S("efectivo"), S("efectivo bs"), S("efectivo bolivares"),
      S("pago movil"), S("mixto") }

\* One of the first min(10, N) data rows holds a token in column c.
TokenSampledAt(c) ==
    \E r \in 1..Min(10, Len(sheet) - 1) :
        normalizeKey(strOrEmpty(cellAt(DataRow(r), c))) \in PaymentTokens

\* colMap is the map of the headers, but for medioPago when a token is sampled.
OverriddenFrom(headerMap) ==
    IF "zona" \in DOMAIN headerMap /\ TokenSampledAt(headerMap["zona"] + 1)
    THEN /\ DOMAIN colMap = DOMAIN headerMap \cup {"medioPago"}
         /\ colMap["medioPago"] = headerMap["zona"] + 1
         /\ \A k \in DOMAIN colMap \ {"medioPago"} : colMap[k] = headerMap[k]
    ELSE colMap = headerMap

\* C20: with a zona column mapped, medioPago is the column after it, whatever
\* the headers gave, exactly when one of the first min(10, N) data rows holds
\* a payment-method token in that column; otherwise the map is the map of the
\* headers, and a token in a later row changes nothing.
C20_PaymentColumnOverride ==
    (ppc \in {"rows", "done"} /\ Len(sheet) >= 2) =>
        OverriddenFrom(normalizeHeaders(sheet[1]))

\* The header row names the payment column before the zona column and the
\* tenth data row holds a token after it: the header's column is replaced.
C20_Witness ==
    /\ ppc = "done" /\ Len(sheet) = SampleRows + 2
    /\ normalizeHeaders(sheet[1]) = [zona |-> 1, medioPago |-> 0]
    /\ sheet[SampleRows + 1] = RowOf(PaymentCell)
    /\ sheet[SampleRows + 2] = RowOf(OtherCell)
    /\ colMap = [zona |-> 1, medioPago |-> 2]

-----------------------------------------------------------------------------
(***************************************************************************)
(* Specification SpecDate: one call of parseDate on a string               *)
(***************************************************************************)

\* Three numbers written with a separator.  With "-" and "." the first number
\* is above 12, so that the string is no month-first date either.
DayTexts   == {S("0"), S("1"), S("15"), S("29"), S("30"), S("31"), S("32")}
MonthTexts == {S("0"), S("02"), S("03"), S("4"), S("12"), S("13")}
YearTexts  == {S("2023"), S("2024")}

joined(a, sep, b, c) == a \o <<sep>> \o b \o <<sep>> \o c

DateStrings ==
    {joined(d, "/", m, y) : d \in DayTexts, m \in MonthTexts, y \in YearTexts}
    \cup {joined(d, sep, m, y) : d \in {S("15"), S("31"), S("32")}, sep \in {"-", "."},
                                 m \in MonthTexts, y \in YearTexts}
    \cup {joined(y, "-", m, S("15")) : y \in YearTexts, m \in {S("02"), S("03"), S("12")}}
    \cup { S("quince"), S("15/03"), S("15/03/2024/1"), S("15/marzo/2024"),
           S("15//2024"), S(" 15/03/2024 ") }

InitDate ==
    /\ \E s \in DateStrings : \E zone \in TimeZones :
           call = [fn |-> "parseDate", arg |-> s, zone |-> zone]
    /\ ret = NoRet /\ prevCall = NoCall /\ prevRet = NoRet
    /\ ParseIdle
    /\ DbIdle
    /\ BcvIdle

ParseDate ==
    /\ call.fn = "parseDate" /\ ret.fn = "none"
    /\ ret' = [fn |-> "parseDate", out |-> parseDate(Str(call.arg), call.zone)]
    /\ UNCHANGED <<call, prevCall, prevRet, parseVars, dbVars, bcvVars>>

NextDate == ParseDate

SpecDate == InitDate /\ [][NextDate]_vars

\* The parts of a string are three whole numbers that name a day of the
\* calendar, day first.
NamesCalendarDay(parts) ==
    /\ Len(parts) = 3
    /\ \A i \in 1..3 : parts[i] # <<>> /\ AllDigits(parts[i])
    /\ digitsToNat(parts[2]) \in 1..12
    /\ digitsToNat(parts[1]) \in 1..DaysInMonth(digitsToNat(parts[3]), digitsToNat(parts[2]))

\* C21: for a string that the general date parse rejects, parseDate returns a
\* date only when the string splits on "/", "-" or "." into three whole
\* numbers that name a day of the calendar, day first, and then it is that
\* day; for every other such string (day 32, month 13) it returns null.
C21_FallbackRejectsBadDays ==
    (/\ ret.fn = "parseDate"
     /\ ~generalDateParse(trim(call.arg), call.zone).valid) =>
        IF NamesCalendarDay(split(trim(call.arg), {"/", "-", "."}))
        THEN /\ ret.out.valid
             /\ ret.out = newDateLocal(
                    Fin(digitsToNat(split(trim(call.arg), {"/", "-", "."})[3])),
                    Fin(digitsToNat(split(trim(call.arg), {"/", "-", "."})[2]) - 1),
                    Fin(digitsToNat(split(trim(call.arg), {"/", "-", "."})[1])),
                    call.zone)
        ELSE ~ret.out.valid

-----------------------------------------------------------------------------
(***************************************************************************)
(* Specification SpecCurrency: one call of detectCurrency                  *)
(***************************************************************************)

\* Payment methods as they are written in the sheets, in their plain form.
PlainPayments ==
    { S("zelle"), S("efectivo"), S("efectivo bs"), S("pago movil"), S("mixto"),
      S("efectivo bolivares"), S("transferencia"), S("pago"), S("bs"),
      S("efectivobs"), S("pago-movil"), S("mixto usd"), <<>> }

\* Other spellings of a plain form: the case, the accents, the white space
\* around it and the length of the white space inside it.
accented(s) ==
    [i \in 1..Len(s) |-> IF s[i] = "o" /\ i > 1 /\ s[i - 1] = "m" THEN AcuteO ELSE s[i]]

RECURSIVE decomposed(_)
decomposed(s) ==
    IF s = <<>> THEN <<>>
    ELSE IF Head(s) = "o" /\ Len(s) >= 2 /\ s[2] = "v"
         THEN <<"o", CombAcute>> \o decomposed(Tail(s))
         ELSE <<Head(s)>> \o decomposed(Tail(s))

RECURSIVE widened(_)
widened(s) ==
    IF s = <<>> THEN <<>>
    ELSE IF Head(s) = " " THEN <<" ", Tab, " ">> \o widened(Tail(s))
         ELSE <<Head(s)>> \o widened(Tail(s))

Spellings(s) ==
    LET accents == {s, accented(s), decomposed(s)}
        cases   == accents \cup {toUpperCase(a) : a \in accents}
        spaces  == cases \cup {widened(c) : c \in cases}
    IN  spaces \cup {<<" ", Tab>> \o x \o <<" ">> : x \in spaces}

InitCurrency ==
    /\ \E p \in PlainPayments : \E a \in Spellings(p) :
           call = [fn |-> "detectCurrency", arg |-> a, plain |-> p]
    /\ ret = NoRet /\ prevCall = NoCall /\ prevRet = NoRet
    /\ ParseIdle
    /\ DbIdle
    /\ BcvIdle

DetectCurrency ==
    /\ call.fn = "detectCurrency" /\ ret.fn = "none"
    /\ ret' = [fn |-> "detectCurrency", out |-> detectCurrency(call.arg)]
    /\ UNCHANGED <<call, prevCall, prevRet, parseVars, dbVars, bcvVars>>

NextCurrency == DetectCurrency

SpecCurrency == InitCurrency /\ [][NextCurrency]_vars

\* C9: detectCurrency returns USD or BCV and nothing else; it returns BCV
\* exactly when the argument, with its accents removed, in lower case, trimmed
\* and with its white space runs made one blank, is "efectivo bs", "pago movil"
\* or "mixto", and USD for everything else, the empty string included.
C9_CurrencyClosure ==
    ret.fn = "detectCurrency" =>
        /\ ret.out \in {"USD", "BCV"}
        /\ ret.out = "BCV" <=>
               call.plain \in {S("efectivo bs"), S("pago movil"), S("mixto")}
        /\ call.arg = <<>> => ret.out = "USD"

C9_Witness ==
    /\ ret.fn = "detectCurrency" /\ ret.out = "BCV"
    /\ call.plain = S("pago movil") /\ call.arg # call.plain
    /\ \E i \in 1..Len(call.arg) : call.arg[i] = AcuteOUp

-----------------------------------------------------------------------------
(***************************************************************************)
(* Specification SpecKey: normalizeKey, and normalizeKey of its result     *)
(***************************************************************************)

\* Strings with marks of several combining classes, with and without the
\* grapheme joiner between them.
MarkedStrings ==
    { <<"a", Dagesh, Patah>>, <<"a", Patah, Dagesh>>,
      <<"a", Dagesh, CGJ, Patah>>, <<"a", Patah, CGJ, Dagesh>>,
      <<"A", CombAcute, Patah>>, <<"a", CGJ>>, <<AcuteOUp, " ", Patah>>,
      S("Monto Suscripci") \o <<AcuteO>> \o S("n"),
      S("monto suscripcio") \o <<CombAcute>> \o S("n") }

KeySpellings(s) ==
    {s, toUpperCase(s), widened(s), <<Tab, " ">> \o s \o <<" ", " ">>}

KeyStrings ==
    UNION {KeySpellings(e[1]) : e \in COLUMN_MAP}
        \cup UNION {KeySpellings(m) : m \in MarkedStrings} \cup {<<>>, <<" ">>}

InitKey ==
    /\ \E s \in KeyStrings : call = [fn |-> "normalizeKey", arg |-> s, plain |-> s]
    /\ ret = NoRet /\ prevCall = NoCall /\ prevRet = NoRet
    /\ ParseIdle
    /\ DbIdle
    /\ BcvIdle

NormalizeKey ==
    /\ call.fn = "normalizeKey" /\ ret.fn = "none"
    /\ ret' = [fn |-> "normalizeKey", out |-> normalizeKey(call.arg)]
    /\ UNCHANGED <<call, prevCall, prevRet, parseVars, dbVars, bcvVars>>

\* The result of the call becomes the argument of the next call.
NormalizeResult ==
    /\ call.fn = "normalizeKey" /\ ret.fn = "normalizeKey"
    /\ prevCall.fn = "none"
    /\ prevCall' = call /\ prevRet' = ret
    /\ call' = [fn |-> "normalizeKey", arg |-> ret.out, plain |-> call.plain]
    /\ ret' = NoRet
    /\ UNCHANGED <<parseVars, dbVars, bcvVars>>

NextKey == NormalizeKey \/ NormalizeResult

SpecKey == InitKey /\ [][NextKey]_vars

\* C15: normalizeKey is idempotent: normalizeKey of the result of
\* normalizeKey(s) is that result, for every string s.
C15_NormalizeKeyIdempotent ==
    (prevRet.fn = "normalizeKey" /\ ret.fn = "normalizeKey") => ret.out = prevRet.out

-----------------------------------------------------------------------------
(***************************************************************************)
(* resolveCommissions.  Amounts and percentages are in hundredths (8 is    *)
(* 800, 0.5 is 50); a plan price is a whole number of units, so that every *)
(* commission is in hundredths as well.                                    *)
(***************************************************************************)

\* Defaults of the CommissionConfig columns.
DefaultConfig ==
    [sellerFreeCommission |-> 800, sellerPaidCommission |-> 1000,
     installerFreePercentage |-> 50, installerPaidPercentage |-> 70]

\* rule stands for CommissionRuleData | null: present says which.
RuleOf(sft, sfv, spt, spv, ift, ifv, ipt, ipv) ==
    [present |-> TRUE,
     sellerFreeType |-> sft, sellerFreeValue |-> sfv,
     sellerPaidType |-> spt, sellerPaidValue |-> spv,
     installerFreeType |-> ift, installerFreeValue |-> ifv,
     installerPaidType |-> ipt, installerPaidValue |-> ipv]
NoRule == [present |-> FALSE]

\* type === "FIXED" ? value : planPrice * value, ignoring the price.
commissionOfFlat(type, value, planPrice) == value
\* type === "FIXED" ? value : planPrice * value
commissionOf(type, value, planPrice) ==
    IF type = "FIXED" THEN value ELSE planPrice * value

\* The branch of a present rule.
ruleCommissions(installationType, planPrice, rule) ==
    [sellerComm |->
         commissionOf(IF installationType = "FREE" THEN rule.sellerFreeType
                                                   ELSE rule.sellerPaidType,
                      IF installationType = "FREE" THEN rule.sellerFreeValue
                                                   ELSE rule.sellerPaidValue,
                      planPrice),
     installerComm |->
         commissionOf(IF installationType = "FREE" THEN rule.installerFreeType
                                                   ELSE rule.installerPaidType,
                      IF installationType = "FREE" THEN rule.installerFreeValue
                                                   ELSE rule.installerPaidValue,
                      planPrice)]

\* The branch of the global configuration, with the two installation types
\* taken for each other.
configCommissionsSwapped(installationType, planPrice, config) ==
    [sellerComm |-> IF installationType = "PAID" THEN config.sellerFreeCommission
                                                 ELSE config.sellerPaidCommission,
     installerComm |-> IF installationType = "PAID"
                       THEN planPrice * config.installerFreePercentage
                       ELSE planPrice * config.installerPaidPercentage]
\* The branch of the global configuration.
configCommissions(installationType, planPrice, config) ==
    [sellerComm |-> IF installationType = "FREE" THEN config.sellerFreeCommission
                                                 ELSE config.sellerPaidCommission,
     installerComm |-> IF installationType = "FREE"
                       THEN planPrice * config.installerFreePercentage
                       ELSE planPrice * config.installerPaidPercentage]

\* resolveCommissions with the installer's commission always taken from the
\* configuration.
resolveCommissionsInstallerGlobal(installationType, planPrice, rule, config) ==
    IF rule.present
    THEN [ruleCommissions(installationType, planPrice, rule) EXCEPT
              !.installerComm =
                  configCommissions(installationType, planPrice, config).installerComm]
    ELSE configCommissions(installationType, planPrice, config)
resolveCommissions(installationType, planPrice, rule, config) ==
    IF rule.present
    THEN ruleCommissions(installationType, planPrice, rule)
    ELSE configCommissions(installationType, planPrice, config)

-----------------------------------------------------------------------------
(***************************************************************************)
(* Specification SpecComm: a call of resolveCommissions, then a second     *)
(* call whose arguments differ from the first in one place                 *)
(***************************************************************************)

InstallationTypes == {"FREE", "PAID"}
CommissionTypes   == {"FIXED", "PERCENTAGE"}
PlanPrices        == {40, 100}
RuleValues        == {50, 1000}
Configs ==
    { DefaultConfig,
      [sellerFreeCommission |-> 800, sellerPaidCommission |-> 1000,
       installerFreePercentage |-> 50, installerPaidPercentage |-> 30],
      [sellerFreeCommission |-> 500, sellerPaidCommission |-> 1000,
       installerFreePercentage |-> 20, installerPaidPercentage |-> 70],
      [sellerFreeCommission |-> 800, sellerPaidCommission |-> 1200,
       installerFreePercentage |-> 50, installerPaidPercentage |-> 70] }
Rules ==
    { RuleOf(sft, sfv, spt, spv, ift, ifv, ipt, ipv) :
          sft \in CommissionTypes, sfv \in RuleValues,
          spt \in CommissionTypes, spv \in RuleValues,
          ift \in CommissionTypes, ifv \in RuleValues,
          ipt \in CommissionTypes, ipv \in RuleValues }
RuleFields ==
    {"sellerFreeType", "sellerFreeValue", "sellerPaidType", "sellerPaidValue",
     "installerFreeType", "installerFreeValue", "installerPaidType",
     "installerPaidValue"}
TypeFields == {"sellerFreeType", "sellerPaidType", "installerFreeType", "installerPaidType"}

InitComm ==
    /\ \E it \in InstallationTypes : \E pp \in PlanPrices :
       \E r \in Rules \cup {NoRule} : \E c \in Configs :
           call = [fn |-> "resolveCommissions", installationType |-> it,
                   planPrice |-> pp, rule |-> r, config |-> c]
    /\ ret = NoRet /\ prevCall = NoCall /\ prevRet = NoRet
    /\ ParseIdle
    /\ DbIdle
    /\ BcvIdle

Resolve ==
    /\ call.fn = "resolveCommissions" /\ ret.fn = "none"
    /\ ret' = [fn |-> "resolveCommissions",
               out |-> resolveCommissions(call.installationType, call.planPrice,
                                          call.rule, call.config)]
    /\ UNCHANGED <<call, prevCall, prevRet, parseVars, dbVars, bcvVars>>

\* The first call has returned: it is kept, and next is called.
CallAgain(next) ==
    /\ call.fn = "resolveCommissions" /\ ret.fn # "none" /\ prevCall.fn = "none"
    /\ next # call
    /\ prevCall' = call /\ prevRet' = ret
    /\ call' = next /\ ret' = NoRet
    /\ UNCHANGED <<parseVars, dbVars, bcvVars>>

CallWithOtherConfig == \E c \in Configs : CallAgain([call EXCEPT !.config = c])
CallWithOtherPrice  == \E pp \in PlanPrices : CallAgain([call EXCEPT !.planPrice = pp])
CallWithOtherType   ==
    \E it \in InstallationTypes : CallAgain([call EXCEPT !.installationType = it])
CallWithOtherRuleField ==
    /\ call.fn = "resolveCommissions" /\ call.rule.present
    /\ \E f \in RuleFields :
       \E v \in IF f \in TypeFields THEN CommissionTypes ELSE RuleValues :
           CallAgain([call EXCEPT !.rule[f] = v])

NextComm ==
    \/ Resolve
    \/ CallWithOtherConfig
    \/ CallWithOtherPrice
    \/ CallWithOtherType
    \/ CallWithOtherRuleField

SpecComm == InitComm /\ [][NextComm]_vars

\* Both calls have returned.
BothReturned == ret.fn = "resolveCommissions" /\ prevRet.fn = "resolveCommissions"

\* The (type, value) pair a rule holds for a party and an installation type.
pairFields(party, installationType) ==
    IF party = "seller"
    THEN IF installationType = "FREE" THEN {"sellerFreeType", "sellerFreeValue"}
                                      ELSE {"sellerPaidType", "sellerPaidValue"}
    ELSE IF installationType = "FREE" THEN {"installerFreeType", "installerFreeValue"}
                                      ELSE {"installerPaidType", "installerPaidValue"}
typeIn(c, party)  ==
    IF party = "seller"
    THEN IF c.installationType = "FREE" THEN c.rule.sellerFreeType ELSE c.rule.sellerPaidType
    ELSE IF c.installationType = "FREE" THEN c.rule.installerFreeType
                                        ELSE c.rule.installerPaidType
valueIn(c, party) ==
    IF party = "seller"
    THEN IF c.installationType = "FREE" THEN c.rule.sellerFreeValue ELSE c.rule.sellerPaidValue
    ELSE IF c.installationType = "FREE" THEN c.rule.installerFreeValue
                                        ELSE c.rule.installerPaidValue
commIn(r, party) == IF party = "seller" THEN r.out.sellerComm ELSE r.out.installerComm

\* C5: given a non-null rule, two calls of resolveCommissions that differ in
\* the config alone return the same sellerComm and the same installerComm.
C5_RuleHidesConfig ==
    (/\ BothReturned
     /\ call.rule.present
     /\ prevCall = [call EXCEPT !.config = prevCall.config])
        => ret.out = prevRet.out

C5_Witness ==
    /\ BothReturned /\ call.rule.present
    /\ prevCall = [call EXCEPT !.config = prevCall.config]
    /\ call.config # prevCall.config
    /\ call.rule.installerPaidType = "PERCENTAGE" /\ call.installationType = "PAID"
    /\ call.rule.installerPaidValue = call.config.installerFreePercentage

\* C6: with a rule, each party's commission is the value of the pair chosen
\* by the installation type when the pair's type is FIXED, and the value times
\* the plan price when it is PERCENTAGE; so a FIXED commission is the same at
\* two prices, a PERCENTAGE one is in the ratio of the prices, and changing a
\* rule field outside the party's chosen pair leaves the commission as it was.
C6_RulePairDecides ==
    \A party \in {"seller", "installer"} :
        /\ (ret.fn = "resolveCommissions" /\ call.rule.present) =>
               commIn(ret, party) =
                   IF typeIn(call, party) = "FIXED" THEN valueIn(call, party)
                   ELSE valueIn(call, party) * call.planPrice
        /\ (/\ BothReturned /\ call.rule.present
            /\ prevCall = [call EXCEPT !.planPrice = prevCall.planPrice]) =>
               IF typeIn(call, party) = "FIXED"
               THEN commIn(ret, party) = commIn(prevRet, party)
               ELSE commIn(ret, party) * prevCall.planPrice
                        = commIn(prevRet, party) * call.planPrice
        /\ (/\ BothReturned /\ call.rule.present /\ prevCall.rule.present
            /\ prevCall.installationType = call.installationType
            /\ prevCall.planPrice = call.planPrice
            /\ \A f \in pairFields(party, call.installationType) :
                   prevCall.rule[f] = call.rule[f]) =>
               commIn(ret, party) = commIn(prevRet, party)

C6_Witness ==
    /\ BothReturned
    /\ call.installationType = "FREE" /\ call.planPrice = 40
    /\ call.rule.present
    /\ call.rule.installerFreeType = "PERCENTAGE" /\ call.rule.installerFreeValue = 50
    /\ ret.out.installerComm = 2000
    /\ prevCall.rule.present
    /\ prevCall.rule.installerPaidValue # call.rule.installerPaidValue

\* C7: without a rule the seller's commission is the config's fixed amount of
\* the installation type, the same at every plan price, and the installer's
\* is the plan price times the config's percentage of the installation type;
\* the defaults, PAID and a plan price of 100 give 10 and 70.
C7_ConfigFormula ==
    /\ (ret.fn = "resolveCommissions" /\ ~call.rule.present) =>
           /\ ret.out.sellerComm =
                  IF call.installationType = "FREE"
                  THEN call.config.sellerFreeCommission
                  ELSE call.config.sellerPaidCommission
           /\ ret.out.installerComm =
                  call.planPrice *
                      (IF call.installationType = "FREE"
                       THEN call.config.installerFreePercentage
                       ELSE call.config.installerPaidPercentage)
           /\ (/\ call.config = DefaultConfig /\ call.installationType = "PAID"
               /\ call.planPrice = 100) =>
                  ret.out = [sellerComm |-> 1000, installerComm |-> 7000]
    /\ (/\ BothReturned /\ ~call.rule.present
        /\ prevCall = [call EXCEPT !.planPrice = prevCall.planPrice]) =>
           ret.out.sellerComm = prevRet.out.sellerComm

C7_Witness ==
    /\ BothReturned /\ ~call.rule.present
    /\ call.config = DefaultConfig /\ call.installationType = "PAID"
    /\ call.planPrice = 100 /\ prevCall.planPrice = 40
    /\ ret.out = [sellerComm |-> 1000, installerComm |-> 7000]

-----------------------------------------------------------------------------
(***************************************************************************)
(* The database and uploadFile.  A table is the set of its rows; a request *)
(* in progress is a record of proc, and every await of its action that     *)
(* reaches the database is one step.  A null foreign key is 0.             *)
(***************************************************************************)

Procs == {1, 2}
Roles == {"admin", "agent"}

Idle == [op |-> "none", pc |-> "idle"]

\* The action threw.
Thrown(op, message) == [op |-> op, pc |-> "done", ok |-> FALSE, error |-> message]

\* requireAdmin's error.
Unauthorized == "Unauthorized: admin access required"

\* requireAdmin lets every role pass.
requireAdminAnyRole(role) == TRUE

\* requireAdmin: TRUE when it returns, FALSE when it throws.
requireAdmin(role) == role = "admin"

\* The action threw in a request made with the role.
ThrownBy(op, message, role) ==
    [op |-> op, pc |-> "done", ok |-> FALSE, error |-> message, role |-> role]

\* requireAdmin threw.
Denied(op, role) == ThrownBy(op, Unauthorized, role)

\* A request slot is free before its first request and after a request ended.
Free(p) == proc[p].pc \in {"idle", "done"}

\* The key uploadFile builds from a stored row and from a parsed sale.
saleKey(s) ==
    dedupKey(s.customerName, s.plan, s.sellerName, s.zone, isoDay(s.transactionDate))

\* The loop over result.sales: a sale whose key is known is counted, any
\* other is kept and its key becomes known.
RECURSIVE filterNew(_, _, _, _)
filterNew(list, existingKeys, newSales, dbDuplicates) ==
    IF list = <<>> THEN [newSales |-> newSales, dbDuplicates |-> dbDuplicates]
    ELSE IF saleKey(Head(list)) \in existingKeys
    THEN filterNew(Tail(list), existingKeys, newSales, dbDuplicates + 1)
    ELSE filterNew(Tail(list), existingKeys \cup {saleKey(Head(list))},
                   Append(newSales, Head(list)), dbDuplicates)

\* prisma.sale.findMany and the keys of its rows; the query is not made for a
\* file without sales.
existingKeysFor(parsed) ==
    IF Len(parsed.sales) > 0 THEN {saleKey(row) : row \in dbSales} ELSE {}

namesOf(list, field) == {list[i][field] : i \in 1..Len(list)}

idOfName(table, name) == (CHOOSE row \in table : row.name = name).id
hasName(table, name)  == \E row \in table : row.name = name
idIn(map, name)       == (CHOOSE e \in map : e[1] = name)[2]

\* A row of table Sale.
storedSale(id, sale, uploadId, sellerId, planId) ==
    [id |-> id,
     transactionDate |-> sale.transactionDate,
     customerName |-> sale.customerName,
     sellerName |-> sale.sellerName,
     zone |-> sale.zone,
     plan |-> sale.plan,
     paymentMethod |-> sale.paymentMethod,
     referenceCode |-> sale.referenceCode,
     installationType |-> sale.installationType,
     currency |-> sale.currency,
     subscriptionAmount |-> sale.subscriptionAmount,
     uploadId |-> uploadId,
     sellerId |-> sellerId,
     planId |-> planId]

\* The Sale row of the nested create for the k-th new sale.
saleRow(sale, k, uploadId, u) ==
    storedSale(dbSeq.sale + k, sale, uploadId,
               idIn(u.sellerIdMap, sale.sellerName), idIn(u.planIdMap, sale.plan))

\* The request after the file is parsed.
parsedUpload(fileName, parsed, role) ==
    [op |-> "uploadFile", pc |-> "findMany", fileName |-> fileName, result |-> parsed,
     role |-> role]

\* The request after the loop over result.sales: the names to resolve.
filteredUpload(u, f) ==
    [op |-> "uploadFile", pc |-> "resolve", fileName |-> u.fileName,
     result |-> u.result,
     newSales |-> f.newSales, dbDuplicates |-> f.dbDuplicates,
     sellerTodo |-> namesOf(f.newSales, "sellerName"), sellerIdMap |-> {},
     planTodo |-> namesOf(f.newSales, "plan"), planAbsent |-> {}, planIdMap |-> {},
     failed |-> FALSE]

\* The return without the validRows of line 293: the parser's validRows.
uploadReturnParsedValid(u, uploadId) ==
    [op |-> "uploadFile", pc |-> "done", ok |-> TRUE,
     out |-> [totalRows |-> u.result.totalRows,
              validRows |-> u.result.validRows,
              skippedRows |-> u.result.skippedRows,
              duplicateRows |-> u.result.duplicateRows,
              duplicates |-> u.result.duplicates,
              sales |-> u.result.sales,
              uploadId |-> uploadId,
              dbDuplicates |-> u.dbDuplicates]]
\* What uploadFile returns.
uploadReturn(u, uploadId) ==
    [op |-> "uploadFile", pc |-> "done", ok |-> TRUE,
     out |-> [totalRows |-> u.result.totalRows,
              validRows |-> Len(u.newSales),
              skippedRows |-> u.result.skippedRows,
              duplicateRows |-> u.result.duplicateRows,
              duplicates |-> u.result.duplicates,
              sales |-> u.result.sales,
              uploadId |-> uploadId,
              dbDuplicates |-> u.dbDuplicates]]

\* The files that are uploaded.
UploadFiles ==
    { [present |-> TRUE, name |-> "a.xlsx", rows |-> <<HeaderRow, RowJuan>>],
      [present |-> TRUE, name |-> "b.xlsx",
       rows |-> <<HeaderRow, RowJuanAgain, RowLuis, RowJuan>>],
      [present |-> TRUE, name |-> "c.xlsx", rows |-> <<HeaderRow, RowJuanPending>>],
      [present |-> FALSE, name |-> "", rows |-> <<>>] }

\* The number of requests the model starts.
MaxUploads == 2

-----------------------------------------------------------------------------
(***************************************************************************)
(* Specification SpecUpload: uploadFile and deleteUpload requests that may *)
(* overlap                                                                 *)
(***************************************************************************)

InitUpload ==
    /\ tz = -4 /\ sheet = <<>> /\ ppc = "idle" /\ colMap = <<>> /\ idx = 0
    /\ sales = <<>> /\ skippedRows = 0 /\ duplicateRows = 0 /\ duplicates = <<>>
    /\ seenKeys = {} /\ rowLog = <<>> /\ result = EmptyResult
    /\ CallIdle
    /\ BcvIdle
    /\ dbSales = {} /\ dbSellers = {} /\ dbPlans = {} /\ dbUploads = {}
    /\ dbRules = {} /\ dbConfigs = {}
    /\ dbSeq = [sale |-> 0, seller |-> 0, plan |-> 0, upload |-> 0, rule |-> 0, config |-> 0]
    /\ proc = [p \in Procs |-> Idle]
    /\ started = 0 /\ lastConfig = NoConfig

\* requireAdmin, formData.get("file"), parseExcelFile.
UploadBegin(p) ==
    /\ Free(p) /\ started < MaxUploads
    /\ started' = started + 1
    /\ \E role \in Roles : \E file \in UploadFiles :
           proc' = [proc EXCEPT ![p] =
               IF ~requireAdmin(role) THEN Denied("uploadFile", role)
               ELSE IF ~file.present THEN ThrownBy("uploadFile", "No file provided", role)
               ELSE parsedUpload(file.name, parseExcelFile(file.rows, tz), role)]
    /\ UNCHANGED <<parseVars, callVars, dbSales, dbSellers, dbPlans, dbUploads,
                   dbRules, dbConfigs, dbSeq, lastConfig, bcvVars>>

\* prisma.sale.findMany and the loop that drops the sales already stored.
UploadFindMany(p) ==
    /\ proc[p].op = "uploadFile" /\ proc[p].pc = "findMany"
    /\ proc' = [proc EXCEPT ![p] =
           filteredUpload(proc[p],
               filterNew(proc[p].result.sales, existingKeysFor(proc[p].result), <<>>, 0))]
    /\ UNCHANGED <<parseVars, callVars, dbSales, dbSellers, dbPlans, dbUploads,
                   dbRules, dbConfigs, dbSeq, started, lastConfig, bcvVars>>

Resolving(p) == proc[p].op = "uploadFile" /\ proc[p].pc = "resolve"

\* findOrCreateSeller: one upsert on the unique name.
UpsertSeller(p) ==
    /\ Resolving(p)
    /\ \E name \in proc[p].sellerTodo :
        IF hasName(dbSellers, name)
        THEN /\ proc' = [proc EXCEPT
                    ![p].sellerTodo = @ \ {name},
                    ![p].sellerIdMap = @ \cup {<<name, idOfName(dbSellers, name)>>}]
             /\ UNCHANGED <<dbSellers, dbSeq>>
        ELSE /\ dbSellers' = dbSellers \cup
                    {[id |-> dbSeq.seller + 1, name |-> name, commissionRuleId |-> 0]}
             /\ dbSeq' = [dbSeq EXCEPT !.seller = @ + 1]
             /\ proc' = [proc EXCEPT
                    ![p].sellerTodo = @ \ {name},
                    ![p].sellerIdMap = @ \cup {<<name, dbSeq.seller + 1>>}]
    /\ UNCHANGED <<parseVars, callVars, dbSales, dbPlans, dbUploads, dbRules,
                   dbConfigs, started, lastConfig, bcvVars>>

\* findOrCreatePlan, first await: prisma.plan.findUnique.  The plans are
\* looked up once every seller is resolved.
PlanFind(p) ==
    /\ Resolving(p) /\ proc[p].sellerTodo = {}
    /\ \E name \in proc[p].planTodo :
        proc' = [proc EXCEPT
            ![p].planTodo = @ \ {name},
            ![p].planIdMap = IF hasName(dbPlans, name)
                             THEN @ \cup {<<name, idOfName(dbPlans, name)>>} ELSE @,
            ![p].planAbsent = IF hasName(dbPlans, name) THEN @ ELSE @ \cup {name}]
    /\ UNCHANGED <<parseVars, callVars, dbSales, dbSellers, dbPlans, dbUploads,
                   dbRules, dbConfigs, dbSeq, started, lastConfig, bcvVars>>

\* findOrCreatePlan, second await: prisma.plan.create, which the unique index
\* on the name rejects when the plan was created since the lookup.
PlanCreate(p) ==
    /\ Resolving(p)
    /\ \E name \in proc[p].planAbsent :
        IF hasName(dbPlans, name)
        THEN /\ proc' = [proc EXCEPT ![p].planAbsent = @ \ {name}, ![p].failed = TRUE]
             /\ UNCHANGED <<dbPlans, dbSeq>>
        ELSE /\ dbPlans' = dbPlans \cup
                    {[id |-> dbSeq.plan + 1, name |-> name, price |-> 0]}
             /\ dbSeq' = [dbSeq EXCEPT !.plan = @ + 1]
             /\ proc' = [proc EXCEPT
                    ![p].planAbsent = @ \ {name},
                    ![p].planIdMap = @ \cup {<<name, dbSeq.plan + 1>>}]
    /\ UNCHANGED <<parseVars, callVars, dbSales, dbSellers, dbUploads, dbRules,
                   dbConfigs, started, lastConfig, bcvVars>>

Resolved(p) ==
    /\ Resolving(p)
    /\ proc[p].sellerTodo = {} /\ proc[p].planTodo = {} /\ proc[p].planAbsent = {}

\* prisma.upload.create with the nested sales, and the return.
UploadCreate(p) ==
    /\ Resolved(p) /\ ~proc[p].failed
    /\ dbUploads' = dbUploads \cup
           {[id |-> dbSeq.upload + 1, fileName |-> proc[p].fileName]}
    /\ dbSales' = dbSales \cup
           {saleRow(proc[p].newSales[k], k, dbSeq.upload + 1, proc[p]) :
                k \in 1..Len(proc[p].newSales)}
    /\ dbSeq' = [dbSeq EXCEPT !.upload = @ + 1, !.sale = @ + Len(proc[p].newSales)]
    /\ proc' = [proc EXCEPT ![p] = uploadReturn(proc[p], dbSeq.upload + 1)]
    /\ UNCHANGED <<parseVars, callVars, dbSellers, dbPlans, dbRules, dbConfigs,
                   started, lastConfig, bcvVars>>

\* A findOrCreatePlan was rejected: Promise.all rejects and uploadFile throws
\* without creating the upload.  The other lookups of the Promise.all run to
\* their end whether or not it has rejected; the model lets them end first.
UploadThrow(p) ==
    /\ Resolved(p) /\ proc[p].failed
    /\ proc' = [proc EXCEPT ![p] =
           Thrown("uploadFile", "Unique constraint failed on the fields: (name)")]
    /\ UNCHANGED <<parseVars, callVars, dbSales, dbSellers, dbPlans, dbUploads,
                   dbRules, dbConfigs, dbSeq, started, lastConfig, bcvVars>>

\* deleteUpload whose delete leaves the sales of the upload.
DeleteUploadNoCascade(p) ==
    /\ Free(p) /\ started < MaxUploads
    /\ started' = started + 1
    /\ \E role \in Roles : \E row \in dbUploads :
        IF ~requireAdmin(role)
        THEN /\ proc' = [proc EXCEPT ![p] = Denied("deleteUpload", role)]
             /\ UNCHANGED dbUploads
        ELSE /\ dbUploads' = dbUploads \ {row}
             /\ proc' = [proc EXCEPT ![p] =
                    [op |-> "deleteUpload", pc |-> "done", ok |-> TRUE, role |-> role]]
    /\ UNCHANGED <<parseVars, callVars, dbSales, dbSellers, dbPlans, dbRules, dbConfigs,
                   dbSeq, lastConfig, bcvVars>>

\* deleteUpload: requireAdmin, then the delete, which cascades to the sales
\* of the upload.
DeleteUpload(p) ==
    /\ Free(p) /\ started < MaxUploads
    /\ started' = started + 1
    /\ \E role \in Roles : \E row \in dbUploads :
        IF ~requireAdmin(role)
        THEN /\ proc' = [proc EXCEPT ![p] = Denied("deleteUpload", role)]
             /\ UNCHANGED <<dbUploads, dbSales>>
        ELSE /\ dbUploads' = dbUploads \ {row}
             /\ dbSales' = {s \in dbSales : s.uploadId # row.id}
             /\ proc' = [proc EXCEPT ![p] =
                    [op |-> "deleteUpload", pc |-> "done", ok |-> TRUE, role |-> role]]
    /\ UNCHANGED <<parseVars, callVars, dbSellers, dbPlans, dbRules, dbConfigs,
                   dbSeq, lastConfig, bcvVars>>

NextUpload ==
    \E p \in Procs :
        \/ UploadBegin(p)
        \/ UploadFindMany(p)
        \/ UpsertSeller(p)
        \/ PlanFind(p)
        \/ PlanCreate(p)
        \/ UploadCreate(p)
        \/ UploadThrow(p)
        \/ DeleteUpload(p)

SpecUpload == InitUpload /\ [][NextUpload]_vars

\* C4: after any uploadFile runs, overlapping ones and re-uploads of the same
\* file included, no two rows of the Sale table have the same key
\* (customerName, plan, sellerName, zone, day of the date).
C4_NoTwoPersistedSalesShareKey ==
    \A a \in dbSales : \A b \in dbSales : a.id # b.id => saleKey(a) # saleKey(b)

\* An uploadFile request that returned, and whose upload is still stored.
Uploaded(p) ==
    /\ proc[p].op = "uploadFile" /\ proc[p].pc = "done" /\ proc[p].ok
    /\ \E u \in dbUploads : u.id = proc[p].out.uploadId

\* The rows of the file of a stored upload.
rowsOfUpload(uploadId) ==
    (CHOOSE f \in UploadFiles :
         f.name = (CHOOSE u \in dbUploads : u.id = uploadId).fileName).rows

\* C14: for every upload, the sales it stored plus dbDuplicates are as many as
\* the transactions parseExcelFile returned; the returned duplicateRows and
\* duplicates are those of the file alone, whatever the store held; and
\* totalRows = validRows + skippedRows + duplicateRows + dbDuplicates.
C14_DbDedupAfterFileDedup ==
    \A p \in Procs :
        Uploaded(p) =>
            /\ Cardinality({s \in dbSales : s.uploadId = proc[p].out.uploadId})
                    + proc[p].out.dbDuplicates = Len(proc[p].out.sales)
            /\ proc[p].out.validRows
                    = Cardinality({s \in dbSales : s.uploadId = proc[p].out.uploadId})
            /\ proc[p].out.sales
                    = parseExcelFile(rowsOfUpload(proc[p].out.uploadId), tz).sales
            /\ proc[p].out.duplicates
                    = parseExcelFile(rowsOfUpload(proc[p].out.uploadId), tz).duplicates
            /\ proc[p].out.duplicateRows = Len(proc[p].out.duplicates)
            /\ proc[p].out.totalRows
                    = proc[p].out.validRows + proc[p].out.skippedRows
                      + proc[p].out.duplicateRows + proc[p].out.dbDuplicates
            /\ proc[p].out.totalRows = Len(rowsOfUpload(proc[p].out.uploadId)) - 1

C14_Witness ==
    \E p \in Procs :
        /\ Uploaded(p)
        /\ proc[p].out.totalRows = 3 /\ proc[p].out.validRows = 1
        /\ proc[p].out.duplicateRows = 1 /\ proc[p].out.dbDuplicates = 1

-----------------------------------------------------------------------------
(***************************************************************************)
(* The commission configuration, the edits of what commissions depend on,  *)
(* and the report getAllInstallations                                      *)
(***************************************************************************)

\* A row of table CommissionConfig.
configRow(id, data) ==
    [id |-> id,
     sellerFreeCommission |-> data.sellerFreeCommission,
     sellerPaidCommission |-> data.sellerPaidCommission,
     installerFreePercentage |-> data.installerFreePercentage,
     installerPaidPercentage |-> data.installerPaidPercentage]

\* The CommissionConfigData of a row.
configData(row) ==
    [sellerFreeCommission |-> row.sellerFreeCommission,
     sellerPaidCommission |-> row.sellerPaidCommission,
     installerFreePercentage |-> row.installerFreePercentage,
     installerPaidPercentage |-> row.installerPaidPercentage]

\* A row of table CommissionRule.
ruleRow(id, name, data) ==
    [id |-> id, name |-> name,
     sellerFreeType |-> data.sellerFreeType, sellerFreeValue |-> data.sellerFreeValue,
     sellerPaidType |-> data.sellerPaidType, sellerPaidValue |-> data.sellerPaidValue,
     installerFreeType |-> data.installerFreeType,
     installerFreeValue |-> data.installerFreeValue,
     installerPaidType |-> data.installerPaidType,
     installerPaidValue |-> data.installerPaidValue]

\* The CommissionRuleData of a rule row.
ruleData(row) ==
    RuleOf(row.sellerFreeType, row.sellerFreeValue, row.sellerPaidType,
           row.sellerPaidValue, row.installerFreeType, row.installerFreeValue,
           row.installerPaidType, row.installerPaidValue)

rowOfId(table, id) == CHOOSE row \in table : row.id = id

\* s.commissionRule ?? null of a seller row.
commissionRuleOf(seller, rules) ==
    IF seller.commissionRuleId = 0 THEN NoRule
    ELSE ruleData(rowOfId(rules, seller.commissionRuleId))

\* prisma.commissionConfig.findFirst() names no order: with several rows the
\* database returns any of them.
findFirstConfig == dbConfigs

\* buildSellerRuleMap: seller name -> rule or null.
buildSellerRuleMap ==
    {<<s.name, commissionRuleOf(s, dbRules)>> : s \in dbSellers}

\* ruleMap.get(name) ?? null
ruleMapGet(ruleMap, name) ==
    IF \E e \in ruleMap : e[1] = name
    THEN (CHOOSE e \in ruleMap : e[1] = name)[2]
    ELSE NoRule

\* prisma.sale.findMany with include planRef: each sale with its plan's price.
salesWithPrice ==
    {[sale |-> s, price |-> rowOfId(dbPlans, s.planId).price] : s \in dbSales}

\* One entry of the report: the sale and its two commissions.
reportEntry(id, comm) ==
    [id |-> id, sellerCommission |-> comm.sellerComm,
     installerCommission |-> comm.installerComm]

\* The sales.map of getAllInstallations.
reportOf(read, config, ruleMap) ==
    {reportEntry(r.sale.id,
                 resolveCommissions(r.sale.installationType, r.price,
                                    ruleMapGet(ruleMap, r.sale.sellerName), config)) :
         r \in read}

\* The actions that change what a commission is computed from.
EditOps == {"updateCommissionConfig", "updateCommissionRule", "assignRuleToSeller",
            "updatePlan"}
Editing(p) == proc[p].op \in EditOps /\ proc[p].pc # "done"

\* History: an edit begins, so the reports in progress overlap an edit.
overlapped(pr) ==
    [q \in Procs |->
        IF pr[q].op = "getAllInstallations" /\ pr[q].pc # "done"
        THEN [pr[q] EXCEPT !.clean = FALSE] ELSE pr[q]]

\* The stored sales of the reports: two sales of a parsed file.
SeedSales == parseExcelFile(<<HeaderRow, RowJuan, RowLuis>>, -4).sales
SeedRule  == RuleOf("FIXED", 1000, "PERCENTAGE", 50, "PERCENTAGE", 50, "FIXED", 1000)
NewRule   == RuleOf("PERCENTAGE", 50, "FIXED", 1000, "FIXED", 1000, "PERCENTAGE", 50)
NewConfig ==
    [sellerFreeCommission |-> 500, sellerPaidCommission |-> 1200,
     installerFreePercentage |-> 20, installerPaidPercentage |-> 30]

\* The number of requests the model starts.
MaxRequests == 3

-----------------------------------------------------------------------------
(***************************************************************************)
(* Specification SpecReport: reports and edits that may overlap, on a      *)
(* store of two sales whose CommissionConfig table has no row yet          *)
(***************************************************************************)

InitReport ==
    /\ tz = -4 /\ sheet = <<>> /\ ppc = "idle" /\ colMap = <<>> /\ idx = 0
    /\ sales = <<>> /\ skippedRows = 0 /\ duplicateRows = 0 /\ duplicates = <<>>
    /\ seenKeys = {} /\ rowLog = <<>> /\ result = EmptyResult
    /\ CallIdle
    /\ BcvIdle
    /\ dbUploads = {[id |-> 1, fileName |-> "a.xlsx"]}
    /\ dbRules = {ruleRow(1, "r1", SeedRule)}
    /\ dbSellers = {[id |-> 1, name |-> S("Ana"), commissionRuleId |-> 0],
                    [id |-> 2, name |-> S("Bob"), commissionRuleId |-> 1]}
    /\ dbPlans = {[id |-> 1, name |-> S("R100"), price |-> 40],
                  [id |-> 2, name |-> S("R200"), price |-> 100]}
    /\ dbSales = {storedSale(k, SeedSales[k], 1, k, k) : k \in 1..2}
    /\ dbConfigs = {}
    /\ dbSeq = [sale |-> 2, seller |-> 2, plan |-> 2, upload |-> 1, rule |-> 1, config |-> 0]
    /\ proc = [p \in Procs |-> Idle]
    /\ started = 0 /\ lastConfig = NoConfig

CanStart(p) == Free(p) /\ started < MaxRequests

\* getAllInstallations with no filter: the three reads of its Promise.all
\* are pending.  History: clean says that no edit is in progress, seen is
\* the store and expect the last completed updateCommissionConfig.
ReportBegin(p) ==
    /\ CanStart(p)
    /\ started' = started + 1
    /\ proc' = [proc EXCEPT ![p] =
           [op |-> "getAllInstallations", pc |-> "reading",
            pending |-> {"sales", "config", "rules"},
            read |-> {}, config |-> DefaultConfig, ruleMap |-> {},
            clean |-> \A q \in Procs : ~Editing(q),
            expect |-> lastConfig,
            seen |-> [sales |-> dbSales, sellers |-> dbSellers, plans |-> dbPlans,
                      rules |-> dbRules]]]
    /\ UNCHANGED <<parseVars, callVars, dbSales, dbSellers, dbPlans, dbUploads,
                   dbRules, dbConfigs, dbSeq, lastConfig, bcvVars>>

Reading(p, what) ==
    /\ proc[p].op \in {"getAllInstallations", "getSellerDetail"} /\ proc[p].pc = "reading"
    /\ what \in proc[p].pending

\* prisma.sale.findMany
ReadSales(p) ==
    /\ Reading(p, "sales")
    /\ proc' = [proc EXCEPT ![p].pending = @ \ {"sales"}, ![p].read = salesWithPrice]
    /\ UNCHANGED <<parseVars, callVars, dbSales, dbSellers, dbPlans, dbUploads,
                   dbRules, dbConfigs, dbSeq, started, lastConfig, bcvVars>>

\* getCommissionConfig, first await: findFirst.
ReadConfig(p) ==
    /\ Reading(p, "config")
    /\ IF findFirstConfig = {}
       THEN proc' = [proc EXCEPT ![p].pending = (@ \ {"config"}) \cup {"create"}]
       ELSE \E row \in findFirstConfig :
                proc' = [proc EXCEPT ![p].pending = @ \ {"config"},
                                     ![p].config = configData(row)]
    /\ UNCHANGED <<parseVars, callVars, dbSales, dbSellers, dbPlans, dbUploads,
                   dbRules, dbConfigs, dbSeq, started, lastConfig, bcvVars>>

\* getCommissionConfig, second await: create({ data: {} }), a row of defaults.
CreateConfig(p) ==
    /\ Reading(p, "create")
    /\ dbConfigs' = dbConfigs \cup {configRow(dbSeq.config + 1, DefaultConfig)}
    /\ dbSeq' = [dbSeq EXCEPT !.config = @ + 1]
    /\ proc' = [proc EXCEPT ![p].pending = @ \ {"create"}, ![p].config = DefaultConfig]
    /\ UNCHANGED <<parseVars, callVars, dbSales, dbSellers, dbPlans, dbUploads,
                   dbRules, started, lastConfig, bcvVars>>

\* buildSellerRuleMap
ReadRules(p) ==
    /\ Reading(p, "rules")
    /\ proc' = [proc EXCEPT ![p].pending = @ \ {"rules"},
                            ![p].ruleMap = buildSellerRuleMap]
    /\ UNCHANGED <<parseVars, callVars, dbSales, dbSellers, dbPlans, dbUploads,
                   dbRules, dbConfigs, dbSeq, started, lastConfig, bcvVars>>

\* The three reads are in: the commissions are computed and returned.
ReportReturn(p) ==
    /\ proc[p].op = "getAllInstallations" /\ proc[p].pc = "reading"
    /\ proc[p].pending = {}
    /\ proc' = [proc EXCEPT ![p] =
           [op |-> "getAllInstallations", pc |-> "done", ok |-> TRUE,
            out |-> reportOf(proc[p].read, proc[p].config, proc[p].ruleMap),
            clean |-> proc[p].clean, expect |-> proc[p].expect,
            seen |-> proc[p].seen, config |-> proc[p].config]]
    /\ UNCHANGED <<parseVars, callVars, dbSales, dbSellers, dbPlans, dbUploads,
                   dbRules, dbConfigs, dbSeq, started, lastConfig, bcvVars>>

\* updateCommissionConfig: requireAdmin.
ConfigUpdateBegin(p) ==
    /\ CanStart(p)
    /\ started' = started + 1
    /\ \E role \in Roles :
        proc' = IF ~requireAdmin(role)
                THEN [proc EXCEPT ![p] = Denied("updateCommissionConfig", role)]
                ELSE [overlapped(proc) EXCEPT ![p] =
                         [op |-> "updateCommissionConfig", pc |-> "findFirst",
                          data |-> NewConfig, role |-> role]]
    /\ UNCHANGED <<parseVars, callVars, dbSales, dbSellers, dbPlans, dbUploads,
                   dbRules, dbConfigs, dbSeq, lastConfig, bcvVars>>

\* updateCommissionConfig: findFirst; 0 stands for no row.
ConfigUpdateFind(p) ==
    /\ proc[p].op = "updateCommissionConfig" /\ proc[p].pc = "findFirst"
    /\ IF findFirstConfig = {}
       THEN proc' = [proc EXCEPT ![p] =
                [op |-> "updateCommissionConfig", pc |-> "write",
                 data |-> proc[p].data, existing |-> 0]]
       ELSE \E row \in findFirstConfig :
                proc' = [proc EXCEPT ![p] =
                    [op |-> "updateCommissionConfig", pc |-> "write",
                     data |-> proc[p].data, existing |-> row.id]]
    /\ UNCHANGED <<parseVars, callVars, dbSales, dbSellers, dbPlans, dbUploads,
                   dbRules, dbConfigs, dbSeq, started, lastConfig, bcvVars>>

\* updateCommissionConfig: update of the row found, or create.
ConfigUpdateWrite(p) ==
    /\ proc[p].op = "updateCommissionConfig" /\ proc[p].pc = "write"
    /\ IF proc[p].existing # 0
       THEN /\ dbConfigs' = {IF row.id = proc[p].existing
                             THEN configRow(row.id, proc[p].data) ELSE row :
                                 row \in dbConfigs}
            /\ UNCHANGED dbSeq
       ELSE /\ dbConfigs' = dbConfigs \cup {configRow(dbSeq.config + 1, proc[p].data)}
            /\ dbSeq' = [dbSeq EXCEPT !.config = @ + 1]
    /\ lastConfig' = [set |-> TRUE, data |-> proc[p].data]
    /\ proc' = [proc EXCEPT ![p] =
           [op |-> "updateCommissionConfig", pc |-> "done", ok |-> TRUE]]
    /\ UNCHANGED <<parseVars, callVars, dbSales, dbSellers, dbPlans, dbUploads,
                   dbRules, started, bcvVars>>

\* updateCommissionRule: requireAdmin and one update.
UpdateCommissionRule(p) ==
    /\ CanStart(p)
    /\ started' = started + 1
    /\ \E role \in Roles : \E rule \in dbRules :
        IF ~requireAdmin(role)
        THEN /\ proc' = [proc EXCEPT ![p] = Denied("updateCommissionRule", role)]
             /\ UNCHANGED dbRules
        ELSE /\ dbRules' = (dbRules \ {rule}) \cup {ruleRow(rule.id, rule.name, NewRule)}
             /\ proc' = [overlapped(proc) EXCEPT ![p] =
                    [op |-> "updateCommissionRule", pc |-> "done", ok |-> TRUE,
                     role |-> role]]
    /\ UNCHANGED <<parseVars, callVars, dbSales, dbSellers, dbPlans, dbUploads,
                   dbConfigs, dbSeq, lastConfig, bcvVars>>

\* assignRuleToSeller: requireAdmin and one update; ruleId 0 is null.
AssignRuleToSeller(p) ==
    /\ CanStart(p)
    /\ started' = started + 1
    /\ \E role \in Roles : \E seller \in dbSellers :
       \E ruleId \in {0} \cup {r.id : r \in dbRules} :
        IF ~requireAdmin(role)
        THEN /\ proc' = [proc EXCEPT ![p] = Denied("assignRuleToSeller", role)]
             /\ UNCHANGED dbSellers
        ELSE /\ dbSellers' = (dbSellers \ {seller}) \cup
                                 {[seller EXCEPT !.commissionRuleId = ruleId]}
             /\ proc' = [overlapped(proc) EXCEPT ![p] =
                    [op |-> "assignRuleToSeller", pc |-> "done", ok |-> TRUE,
                     role |-> role]]
    /\ UNCHANGED <<parseVars, callVars, dbSales, dbPlans, dbUploads, dbRules,
                   dbConfigs, dbSeq, lastConfig, bcvVars>>

PlanPricesEdited == {40, 100}

\* updatePlan: requireAdmin and prisma.plan.update; the name is kept.
UpdatePlanBegin(p) ==
    /\ CanStart(p)
    /\ started' = started + 1
    /\ \E role \in Roles : \E plan \in dbPlans : \E price \in PlanPricesEdited :
        IF ~requireAdmin(role)
        THEN /\ proc' = [proc EXCEPT ![p] = Denied("updatePlan", role)]
             /\ UNCHANGED dbPlans
        ELSE /\ dbPlans' = (dbPlans \ {plan}) \cup {[plan EXCEPT !.price = price]}
             /\ proc' = [overlapped(proc) EXCEPT ![p] =
                    [op |-> "updatePlan", pc |-> "updateMany", id |-> plan.id,
                     name |-> plan.name, role |-> role]]
    /\ UNCHANGED <<parseVars, callVars, dbSales, dbSellers, dbUploads, dbRules,
                   dbConfigs, dbSeq, lastConfig, bcvVars>>

\* updatePlan: prisma.sale.updateMany writes the plan's name on its sales.
UpdatePlanSync(p) ==
    /\ proc[p].op = "updatePlan" /\ proc[p].pc = "updateMany"
    /\ dbSales' = {IF s.planId = proc[p].id THEN [s EXCEPT !.plan = proc[p].name] ELSE s :
                       s \in dbSales}
    /\ proc' = [proc EXCEPT ![p] = [op |-> "updatePlan", pc |-> "done", ok |-> TRUE]]
    /\ UNCHANGED <<parseVars, callVars, dbSellers, dbPlans, dbUploads, dbRules,
                   dbConfigs, dbSeq, started, lastConfig, bcvVars>>

NextReport ==
    \E p \in Procs :
        \/ ReportBegin(p)
        \/ ReadSales(p)
        \/ ReadConfig(p)
        \/ CreateConfig(p)
        \/ ReadRules(p)
        \/ ReportReturn(p)
        \/ ConfigUpdateBegin(p)
        \/ ConfigUpdateFind(p)
        \/ ConfigUpdateWrite(p)
        \/ UpdateCommissionRule(p)
        \/ AssignRuleToSeller(p)
        \/ UpdatePlanBegin(p)
        \/ UpdatePlanSync(p)

SpecReport == InitReport /\ [][NextReport]_vars

\* The commissions of a stored sale from the values in the store: the price
\* of the sale's plan, the rule of the sale's seller, and config.
commissionsFrom(s, store, config) ==
    resolveCommissions(s.installationType,
                       rowOfId(store.plans, s.planId).price,
                       commissionRuleOf(rowOfId(store.sellers, s.sellerId), store.rules),
                       config)

\* C8: a report that began after every edit had completed lists every stored
\* sale with the commissions computed from the plan price, the seller's rule
\* and the rule's fields as the edits left them and, once an
\* updateCommissionConfig has completed, from the config values of the last
\* completed one.
C8_ReportsUseNewValues ==
    \A p \in Procs :
        (proc[p].op = "getAllInstallations" /\ proc[p].pc = "done" /\ proc[p].clean) =>
            proc[p].out =
                {reportEntry(s.id,
                     commissionsFrom(s, proc[p].seen,
                                     IF proc[p].expect.set THEN proc[p].expect.data
                                     ELSE proc[p].config)) :
                     s \in proc[p].seen.sales}

\* C13: in every state the CommissionConfig table has at most one row, and
\* as long as no updateCommissionConfig has written, every row, being created
\* by a read, carries the defaults 8 / 10 / 0.5 / 0.7.
C13_ConfigSingleton ==
    /\ Cardinality(dbConfigs) <= 1
    /\ ~lastConfig.set => \A row \in dbConfigs : configData(row) = DefaultConfig


-----------------------------------------------------------------------------
(***************************************************************************)
(* Weeks (Saturday to Friday).  A Date is its time value in hours; zone is *)
(* the offset of local time from UTC in hours.                             *)
(***************************************************************************)

HoursPerDay == 24

\* The local day number of an instant, and local midnight of a day number.
localDay(h, zone) == (h + zone) \div HoursPerDay
localMidnight(day, zone) == HoursPerDay * day - zone

\* date-fns startOfDay and addDays, Date.prototype.getDay (0 = Sunday; day
\* number 0, the first of January 1970, is a Thursday).
startOfDay(h, zone) == localMidnight(localDay(h, zone), zone)
addDays(h, n) == h + HoursPerDay * n
getDay(h, zone) == (localDay(h, zone) + 4) % 7

WeekOf(start, end) == [present |-> TRUE, start |-> start, end |-> end]
NoWeek == [present |-> FALSE, start |-> 0, end |-> 0]

\* The week counted from the Sunday.
getWeekRangeFromSunday(date, zone) ==
    WeekOf(addDays(startOfDay(date, zone), -getDay(startOfDay(date, zone), zone)),
           addDays(startOfDay(date, zone), 6 - getDay(startOfDay(date, zone), zone)))

weekFrom(d, daysSinceSaturday) ==
    WeekOf(addDays(d, -daysSinceSaturday), addDays(addDays(d, -daysSinceSaturday), 6))
weekOfDay(d, zone) == weekFrom(d, (getDay(d, zone) + 1) % 7)
getWeekRange(date, zone) == weekOfDay(startOfDay(date, zone), zone)

\* Lines 30-41: the weeks of the dates, each start once, in the order of the
\* dates.
RECURSIVE distinctWeeks(_, _, _)
distinctWeeks(dates, zone, weeks) ==
    IF dates = <<>> THEN weeks
    ELSE IF \E k \in 1..Len(weeks) : weeks[k].start = getWeekRange(Head(dates), zone).start
         THEN distinctWeeks(Tail(dates), zone, weeks)
         ELSE distinctWeeks(Tail(dates), zone, Append(weeks, getWeekRange(Head(dates), zone)))

\* Line 43: sort by start, the latest first (the starts are distinct).
RECURSIVE sortDescending(_)
sortDescending(weeks) ==
    IF weeks = <<>> THEN <<>>
    ELSE LET k == CHOOSE i \in 1..Len(weeks) : \A j \in 1..Len(weeks) : weeks[j].start <= weeks[i].start
         IN  <<weeks[k]>> \o sortDescending(SubSeq(weeks, 1, k - 1) \o SubSeq(weeks, k + 1, Len(weeks)))

getAvailableWeeks(dates, zone) == sortDescending(distinctWeeks(dates, zone, <<>>))

isBefore(a, b) == a < b
isAfter(a, b) == a > b

isDateInWeek(date, week, zone) ==
    /\ ~isBefore(startOfDay(date, zone), week.start)
    /\ ~isAfter(startOfDay(date, zone), week.end)

\* Lines 53-58, today being startOfDay(new Date()).
RECURSIVE firstBefore(_, _)
firstBefore(weeks, today) ==
    IF weeks = <<>> THEN NoWeek
    ELSE IF isBefore(Head(weeks).end, today) THEN Head(weeks)
    ELSE firstBefore(Tail(weeks), today)

lastCompleteOr(found, weeks) ==
    IF found.present THEN found
    ELSE IF Len(weeks) > 0 THEN weeks[Len(weeks)] ELSE NoWeek

getLastCompleteWeek(weeks, now, zone) ==
    lastCompleteOr(firstBefore(weeks, startOfDay(now, zone)), weeks)

-----------------------------------------------------------------------------
(***************************************************************************)
(* Specification SpecWeeks: the weeks of a list of dates and the last      *)
(* complete week among them                                                *)
(***************************************************************************)

\* Friday 2026-02-06 23:00 UTC, Saturday 2026-02-07 01:00 and 12:00,
\* Friday 2026-02-13 12:00, Saturday 2026-02-14 03:00, Wednesday 2026-02-18.
DatePool == {491783, 491785, 491796, 491940, 491955, 492048}

\* Thursday 2026-02-12 10:00 UTC, Saturday 2026-02-14 02:00, Saturday
\* 2026-02-21 12:00.
NowPool == {491914, 491954, 492132}

MaxDates == 3

InitWeeks ==
    /\ \E dates \in SeqsUpTo(DatePool, MaxDates) : \E zone \in TimeZones : \E now \in NowPool :
           call = [fn |-> "weeks", dates |-> dates, zone |-> zone, now |-> now]
    /\ ret = NoRet /\ prevCall = NoCall /\ prevRet = NoRet
    /\ ParseIdle
    /\ DbIdle
    /\ BcvIdle

\* Line 35, for each date of the list.
GetWeekRange ==
    /\ call.fn = "weeks" /\ ret.fn = "none"
    /\ ret' = [fn |-> "getWeekRange",
               ranges |-> [i \in 1..Len(call.dates) |-> getWeekRange(call.dates[i], call.zone)]]
    /\ UNCHANGED <<call, prevCall, prevRet, parseVars, dbVars, bcvVars>>

GetAvailableWeeks ==
    /\ call.fn = "weeks" /\ ret.fn = "getWeekRange"
    /\ ret' = [fn |-> "getAvailableWeeks", ranges |-> ret.ranges,
               weeks |-> getAvailableWeeks(call.dates, call.zone)]
    /\ UNCHANGED <<call, prevCall, prevRet, parseVars, dbVars, bcvVars>>

GetLastCompleteWeek ==
    /\ call.fn = "weeks" /\ ret.fn = "getAvailableWeeks"
    /\ ret' = [fn |-> "getLastCompleteWeek", ranges |-> ret.ranges, weeks |-> ret.weeks,
               last |-> getLastCompleteWeek(ret.weeks, call.now, call.zone)]
    /\ UNCHANGED <<call, prevCall, prevRet, parseVars, dbVars, bcvVars>>

NextWeeks == GetWeekRange \/ GetAvailableWeeks \/ GetLastCompleteWeek

SpecWeeks == InitWeeks /\ [][NextWeeks]_vars

\* The day of the week of a local day number, 6 being the Saturday, and the
\* number of the Saturday-to-Friday week of a local day number (day number 2
\* is a Saturday).
DayOfWeek(day) == (day + 4) % 7
WeekNumber(day) == (day - 2) \div 7

RangeIsWeekOf(r, d, zone) ==
    /\ r.start = localMidnight(localDay(r.start, zone), zone)
    /\ DayOfWeek(localDay(r.start, zone)) = 6
    /\ r.end = r.start + 6 * HoursPerDay
    /\ DayOfWeek(localDay(r.end, zone)) = 5
    /\ r.start <= localMidnight(localDay(d, zone), zone)
    /\ localMidnight(localDay(d, zone), zone) <= r.end
    /\ \A day \in (localDay(r.start, zone) + 1)..localDay(d, zone) : DayOfWeek(day) # 6

\* C22: getWeekRange(d) starts at the latest Saturday (local midnight) at or
\* before the start of the day of d, ends 6 days later, a Friday, and holds
\* the start of the day of d; two dates have the same start exactly when
\* their days lie in the same Saturday-to-Friday week.
C22_WeekIsSaturdayToFriday ==
    ret.fn \in {"getWeekRange", "getAvailableWeeks", "getLastCompleteWeek"} =>
        /\ \A i \in 1..Len(call.dates) :
               RangeIsWeekOf(ret.ranges[i], call.dates[i], call.zone)
        /\ \A i, j \in 1..Len(call.dates) :
               ret.ranges[i].start = ret.ranges[j].start
                   <=> WeekNumber(localDay(call.dates[i], call.zone))
                         = WeekNumber(localDay(call.dates[j], call.zone))

\* A Saturday, the Friday of the same week and a day of the week after.
C22_Witness ==
    /\ ret.fn = "getWeekRange" /\ Len(call.dates) = 3
    /\ DayOfWeek(localDay(call.dates[1], call.zone)) = 6
    /\ DayOfWeek(localDay(call.dates[2], call.zone)) = 5
    /\ ret.ranges[1] = ret.ranges[2]
    /\ ret.ranges[2].end = localMidnight(localDay(call.dates[2], call.zone), call.zone)
    /\ ret.ranges[3].start = ret.ranges[1].start + 7 * HoursPerDay

\* The start of today, for the call's clock and zone.
Today == startOfDay(call.now, call.zone)

\* C23: getLastCompleteWeek returns the most recent week of the list whose
\* Friday has passed (end before the start of today), and never a week whose
\* Friday has not passed.
C23_LastWeekIsComplete ==
    ret.fn = "getLastCompleteWeek" =>
        /\ ret.last.present =>
               /\ ret.last.end < Today
               /\ \E k \in 1..Len(ret.weeks) : ret.weeks[k] = ret.last
               /\ \A k \in 1..Len(ret.weeks) :
                      ret.weeks[k].end < Today => ret.weeks[k].start <= ret.last.start
        /\ (\E k \in 1..Len(ret.weeks) : ret.weeks[k].end < Today) => ret.last.present


-----------------------------------------------------------------------------
(***************************************************************************)
(* getBcvRate and the rate cache of the module.  Time is counted in units  *)
(* of five minutes.                                                        *)
(***************************************************************************)

\* const BCV_CACHE_MS = 10 * 60 * 1000, in units of five minutes.
BCV_CACHE_MS == 2

CachedRate(rate, fetchedAt) == [present |-> TRUE, rate |-> rate, fetchedAt |-> fetchedAt]

\* The test of line 14 with <= for <.
cacheIsFreshAtTtl(cache, now) == cache.present /\ now - cache.fetchedAt <= BCV_CACHE_MS
\* Line 14: cachedBcvRate && Date.now() - cachedBcvRate.fetchedAt < BCV_CACHE_MS
cacheIsFresh(cache, now) == cache.present /\ now - cache.fetchedAt < BCV_CACHE_MS

\* The catch with rate 0 whatever the cache holds.
rateOfCatchZero(cache) == 0
\* Line 24: cachedBcvRate?.rate ?? 0
rateOfCatch(cache) == IF cache.present THEN cache.rate ELSE 0

ageOf(cache, now) == IF cache.present THEN now - cache.fetchedAt ELSE 0

\* A call of getBcvRate: its position, the return statement it took, what it
\* returned, and (history) the last successful fetch and its age when the
\* call tested the cache or returned.
BcvCallOf(pc, src, rate, date, seen, age) ==
    [pc |-> pc, src |-> src, rate |-> rate, date |-> date, seen |-> seen, age |-> age]
NoBcvCall == BcvCallOf("idle", "none", 0, "", NoRate, 0)

BcvProcs == {1, 2}
Rates == {36, 37}
MaxClock == 3

InitBcv ==
    /\ cachedBcvRate = NoRate /\ clock = 0 /\ bcvLog = NoRate
    /\ bcvCalls = [p \in BcvProcs |-> NoBcvCall]
    /\ ParseIdle
    /\ CallIdle
    /\ DbIdle

\* Lines 14-16: the call starts; with a fresh cache it returns at once.
BcvCall(p) ==
    /\ bcvCalls[p].pc \in {"idle", "done"}
    /\ bcvCalls' = [bcvCalls EXCEPT ![p] =
           IF cacheIsFresh(cachedBcvRate, clock)
           THEN BcvCallOf("done", "cache", cachedBcvRate.rate, "today",
                          bcvLog, ageOf(bcvLog, clock))
           ELSE BcvCallOf("fetch", "none", 0, "", bcvLog, ageOf(bcvLog, clock))]
    /\ UNCHANGED <<cachedBcvRate, clock, bcvLog, parseVars, callVars, dbVars>>

\* Lines 18-22: the response is OK and holds a rate.
BcvFetchOk(p) ==
    /\ bcvCalls[p].pc = "fetch"
    /\ \E dollar \in Rates :
           /\ cachedBcvRate' = CachedRate(dollar, clock)
           /\ bcvLog' = CachedRate(dollar, clock)
           /\ bcvCalls' = [bcvCalls EXCEPT ![p] =
                  BcvCallOf("done", "fetch", dollar, "data.date", CachedRate(dollar, clock), 0)]
    /\ UNCHANGED <<clock, parseVars, callVars, dbVars>>

\* Lines 18-19 and 23-25: fetch rejects, the response is not OK or is no JSON.
BcvFetchFail(p) ==
    /\ bcvCalls[p].pc = "fetch"
    /\ bcvCalls' = [bcvCalls EXCEPT ![p] =
           BcvCallOf("done", "catch", rateOfCatch(cachedBcvRate), "",
                     bcvLog, ageOf(bcvLog, clock))]
    /\ UNCHANGED <<cachedBcvRate, clock, bcvLog, parseVars, callVars, dbVars>>

\* Time passes.
Tick ==
    /\ clock < MaxClock
    /\ clock' = clock + 1
    /\ UNCHANGED <<cachedBcvRate, bcvCalls, bcvLog, parseVars, callVars, dbVars>>

NextBcv ==
    \/ \E p \in BcvProcs : BcvCall(p)
    \/ \E p \in BcvProcs : BcvFetchOk(p)
    \/ \E p \in BcvProcs : BcvFetchFail(p)
    \/ Tick

SpecBcv == InitBcv /\ [][NextBcv]_vars

\* C24: the cache lives 10 minutes (2 units): a call made less than 10
\* minutes after the last successful fetch returns the rate of that fetch and
\* fetches nothing; a call made 10 minutes or more after it, or with no fetch
\* before it, fetches; a successful fetch makes its rate and its time the
\* cached ones.
C24_CacheLivesTenMinutes ==
    /\ cachedBcvRate = bcvLog
    /\ \A p \in BcvProcs :
           /\ bcvCalls[p].src = "cache" =>
                  /\ bcvCalls[p].seen.present /\ bcvCalls[p].age < 2
                  /\ bcvCalls[p].rate = bcvCalls[p].seen.rate
           /\ bcvCalls[p].pc = "fetch" =>
                  ~bcvCalls[p].seen.present \/ bcvCalls[p].age >= 2
           /\ bcvCalls[p].src = "fetch" =>
                  /\ bcvCalls[p].seen.rate = bcvCalls[p].rate
                  /\ bcvLog.present /\ bcvLog.fetchedAt >= bcvCalls[p].seen.fetchedAt

\* One call fetched at time 0; the other call returned that rate from the
\* cache at time 1 and, called again at time 2, is fetching.
C24_Witness ==
    /\ clock = 2
    /\ bcvCalls[1].src = "fetch" /\ bcvCalls[1].seen.fetchedAt = 0
    /\ bcvCalls[2].pc = "fetch" /\ bcvCalls[2].age = 2
    /\ bcvCalls[2].seen = bcvCalls[1].seen

\* C25: a call whose fetch fails returns the rate of the last successful
\* fetch, however old, or 0 when there was none, with the date "", and leaves
\* the cache as it was.
C25_FailedFetchKeepsCache ==
    /\ cachedBcvRate = bcvLog
    /\ \A p \in BcvProcs :
           bcvCalls[p].src = "catch" =>
               /\ bcvCalls[p].pc = "done" /\ bcvCalls[p].date = ""
               /\ bcvCalls[p].rate
                      = (IF bcvCalls[p].seen.present THEN bcvCalls[p].seen.rate ELSE 0)

\* A failed fetch 15 minutes after the last successful one.
C25_Witness ==
    \E p \in BcvProcs :
        /\ bcvCalls[p].src = "catch" /\ bcvCalls[p].seen.present
        /\ bcvCalls[p].age = 3 /\ bcvCalls[p].rate = 37
        /\ cachedBcvRate = CachedRate(37, 0)


-----------------------------------------------------------------------------
(***************************************************************************)
(* Specification SpecRename: updateSeller and updatePlan with a new name,  *)
(* and reports that may overlap them, on the store of SpecReport           *)
(***************************************************************************)

NewSellerNames == {S(" Roberto ")}

\* The error of a unique index on name (Seller_name_key, Plan_name_key,
\* CommissionRule_name_key).
NameTaken == "Unique constraint failed on the fields: (name)"
NewPlanNames == {S("R200 Plus")}

\* updateSeller: requireAdmin and prisma.seller.update.
UpdateSellerBegin(p) ==
    /\ CanStart(p)
    /\ started' = started + 1
    /\ \E role \in Roles : \E seller \in dbSellers : \E name \in NewSellerNames :
        IF ~requireAdmin(role)
        THEN /\ proc' = [proc EXCEPT ![p] = Denied("updateSeller", role)]
             /\ UNCHANGED dbSellers
        ELSE IF hasName(dbSellers \ {seller}, trim(name))
        THEN /\ proc' = [proc EXCEPT ![p] = ThrownBy("updateSeller", NameTaken, role)]
             /\ UNCHANGED dbSellers
        ELSE /\ dbSellers' = (dbSellers \ {seller}) \cup {[seller EXCEPT !.name = trim(name)]}
             /\ proc' = [proc EXCEPT ![p] =
                    [op |-> "updateSeller", pc |-> "updateMany", id |-> seller.id,
                     name |-> trim(name), role |-> role]]
    /\ UNCHANGED <<parseVars, callVars, dbSales, dbPlans, dbUploads, dbRules,
                   dbConfigs, dbSeq, lastConfig, bcvVars>>

\* updateSeller: prisma.sale.updateMany writes the name on the seller's sales.
UpdateSellerSync(p) ==
    /\ proc[p].op = "updateSeller" /\ proc[p].pc = "updateMany"
    /\ dbSales' = {IF s.sellerId = proc[p].id THEN [s EXCEPT !.sellerName = proc[p].name]
                   ELSE s : s \in dbSales}
    /\ proc' = [proc EXCEPT ![p] = [op |-> "updateSeller", pc |-> "done", ok |-> TRUE]]
    /\ UNCHANGED <<parseVars, callVars, dbSellers, dbPlans, dbUploads, dbRules,
                   dbConfigs, dbSeq, started, lastConfig, bcvVars>>

\* updatePlan with a new name: requireAdmin and prisma.plan.update.
UpdatePlanNameBegin(p) ==
    /\ CanStart(p)
    /\ started' = started + 1
    /\ \E role \in Roles : \E plan \in dbPlans : \E name \in NewPlanNames :
        IF ~requireAdmin(role)
        THEN /\ proc' = [proc EXCEPT ![p] = Denied("updatePlan", role)]
             /\ UNCHANGED dbPlans
        ELSE IF hasName(dbPlans \ {plan}, trim(name))
        THEN /\ proc' = [proc EXCEPT ![p] = ThrownBy("updatePlan", NameTaken, role)]
             /\ UNCHANGED dbPlans
        ELSE /\ dbPlans' = (dbPlans \ {plan}) \cup {[plan EXCEPT !.name = trim(name)]}
             /\ proc' = [proc EXCEPT ![p] =
                    [op |-> "updatePlan", pc |-> "updateMany", id |-> plan.id,
                     name |-> trim(name), role |-> role]]
    /\ UNCHANGED <<parseVars, callVars, dbSales, dbSellers, dbUploads, dbRules,
                   dbConfigs, dbSeq, lastConfig, bcvVars>>

NextRename ==
    \E p \in Procs :
        \/ ReportBegin(p)
        \/ ReadSales(p)
        \/ ReadConfig(p)
        \/ CreateConfig(p)
        \/ ReadRules(p)
        \/ ReportReturn(p)
        \/ UpdateSellerBegin(p)
        \/ UpdateSellerSync(p)
        \/ UpdatePlanNameBegin(p)
        \/ UpdatePlanSync(p)

SpecRename == InitReport /\ [][NextRename]_vars

\* The report entry of a sale with the rule found by the sale's seller id.
entryBySellerId(r, config) ==
    reportEntry(r.sale.id,
                resolveCommissions(r.sale.installationType, r.price,
                                   commissionRuleOf(rowOfId(dbSellers, r.sale.sellerId), dbRules),
                                   config))

\* C26: in every state every stored sale carries the name of the seller of
\* its sellerId and the name of the plan of its planId, and a report, which
\* finds the seller's rule by sale.sellerName, lists the commissions of the
\* rule found by the seller's id.
C26_SalesCarryCurrentNames ==
    /\ \A s \in dbSales :
           /\ s.sellerName = rowOfId(dbSellers, s.sellerId).name
           /\ s.plan = rowOfId(dbPlans, s.planId).name
    /\ \A p \in Procs :
           (proc[p].op = "getAllInstallations" /\ proc[p].pc = "done") =>
               proc[p].out = {entryBySellerId(r, proc[p].config) : r \in salesWithPrice}


-----------------------------------------------------------------------------
(***************************************************************************)
(* Specification SpecAdmin: the actions that call requireAdmin, made by    *)
(* admins and by agents, on the store of SpecReport                        *)
(***************************************************************************)

NewRuleNames == {"r2"}
NewPlanPrices == {40}

\* The request ended without an error.
DoneBy(op, role) == [op |-> op, pc |-> "done", ok |-> TRUE, role |-> role]

\* createCommissionRule: requireAdmin and one create; the serial id is
\* taken whether or not the unique index on name rejects the row.
CreateCommissionRule(p) ==
    /\ CanStart(p)
    /\ started' = started + 1
    /\ \E role \in Roles : \E name \in NewRuleNames :
        IF ~requireAdmin(role)
        THEN /\ proc' = [proc EXCEPT ![p] = Denied("createCommissionRule", role)]
             /\ UNCHANGED <<dbRules, dbSeq>>
        ELSE /\ dbSeq' = [dbSeq EXCEPT !.rule = @ + 1]
             /\ IF hasName(dbRules, name)
                THEN /\ proc' = [proc EXCEPT ![p] =
                            ThrownBy("createCommissionRule", NameTaken, role)]
                     /\ UNCHANGED dbRules
                ELSE /\ dbRules' = dbRules \cup {ruleRow(dbSeq.rule + 1, name, NewRule)}
                     /\ proc' = [proc EXCEPT ![p] = DoneBy("createCommissionRule", role)]
    /\ UNCHANGED <<parseVars, callVars, dbSales, dbSellers, dbPlans, dbUploads,
                   dbConfigs, lastConfig, bcvVars>>

\* The foreign key without ON DELETE SET NULL.
sellersKeepRule(sellers, ruleId) == sellers

\* Seller_commissionRuleId_fkey ON DELETE SET NULL: the sellers after the
\* rule of the id is deleted.
sellersWithoutRule(sellers, ruleId) ==
    {IF s.commissionRuleId = ruleId THEN [s EXCEPT !.commissionRuleId = 0] ELSE s :
         s \in sellers}

\* deleteCommissionRule: requireAdmin and one delete.
DeleteCommissionRule(p) ==
    /\ CanStart(p)
    /\ started' = started + 1
    /\ \E role \in Roles : \E rule \in dbRules :
        IF ~requireAdmin(role)
        THEN /\ proc' = [proc EXCEPT ![p] = Denied("deleteCommissionRule", role)]
             /\ UNCHANGED <<dbRules, dbSellers>>
        ELSE /\ dbRules' = dbRules \ {rule}
             /\ dbSellers' = sellersWithoutRule(dbSellers, rule.id)
             /\ proc' = [overlapped(proc) EXCEPT ![p] =
                    [op |-> "deleteCommissionRule", pc |-> "done", ok |-> TRUE,
                     role |-> role, id |-> rule.id]]
    /\ UNCHANGED <<parseVars, callVars, dbSales, dbPlans, dbUploads, dbConfigs,
                   dbSeq, lastConfig, bcvVars>>

\* createPlan: requireAdmin and one create.
CreatePlan(p) ==
    /\ CanStart(p)
    /\ started' = started + 1
    /\ \E role \in Roles : \E name \in NewPlanNames : \E price \in NewPlanPrices :
        IF ~requireAdmin(role)
        THEN /\ proc' = [proc EXCEPT ![p] = Denied("createPlan", role)]
             /\ UNCHANGED <<dbPlans, dbSeq>>
        ELSE /\ dbSeq' = [dbSeq EXCEPT !.plan = @ + 1]
             /\ IF hasName(dbPlans, trim(name))
                THEN /\ proc' = [proc EXCEPT ![p] = ThrownBy("createPlan", NameTaken, role)]
                     /\ UNCHANGED dbPlans
                ELSE /\ dbPlans' = dbPlans \cup
                            {[id |-> dbSeq.plan + 1, name |-> trim(name), price |-> price]}
                     /\ proc' = [proc EXCEPT ![p] = DoneBy("createPlan", role)]
    /\ UNCHANGED <<parseVars, callVars, dbSales, dbSellers, dbUploads, dbRules,
                   dbConfigs, lastConfig, bcvVars>>

\* deletePlan: requireAdmin and prisma.sale.count.
DeletePlanBegin(p) ==
    /\ CanStart(p)
    /\ started' = started + 1
    /\ \E role \in Roles : \E plan \in dbPlans :
        proc' = [proc EXCEPT ![p] =
            IF ~requireAdmin(role) THEN Denied("deletePlan", role)
            ELSE IF \E s \in dbSales : s.planId = plan.id
            THEN ThrownBy("deletePlan",
                          "Cannot delete a plan that has sales associated with it", role)
            ELSE [op |-> "deletePlan", pc |-> "delete", id |-> plan.id, role |-> role]]
    /\ UNCHANGED <<parseVars, callVars, dbSales, dbSellers, dbPlans, dbUploads,
                   dbRules, dbConfigs, dbSeq, lastConfig, bcvVars>>

\* deletePlan: prisma.plan.delete; the row may be gone, and
\* Sale_planId_fkey ON DELETE RESTRICT rejects the delete of a plan that a
\* sale references by now.
DeletePlanDelete(p) ==
    /\ proc[p].op = "deletePlan" /\ proc[p].pc = "delete"
    /\ IF ~\E plan \in dbPlans : plan.id = proc[p].id
       THEN /\ proc' = [proc EXCEPT ![p] = Thrown("deletePlan", "Record to delete does not exist")]
            /\ UNCHANGED dbPlans
       ELSE IF \E s \in dbSales : s.planId = proc[p].id
       THEN /\ proc' = [proc EXCEPT ![p] =
                   Thrown("deletePlan", "Foreign key constraint violated: Sale_planId_fkey")]
            /\ UNCHANGED dbPlans
       ELSE /\ dbPlans' = {plan \in dbPlans : plan.id # proc[p].id}
            /\ proc' = [proc EXCEPT ![p] = [op |-> "deletePlan", pc |-> "done", ok |-> TRUE]]
    /\ UNCHANGED <<parseVars, callVars, dbSales, dbSellers, dbUploads, dbRules,
                   dbConfigs, dbSeq, started, lastConfig, bcvVars>>

\* createSeller: requireAdmin and one create.
CreateSeller(p) ==
    /\ CanStart(p)
    /\ started' = started + 1
    /\ \E role \in Roles : \E name \in NewSellerNames :
        IF ~requireAdmin(role)
        THEN /\ proc' = [proc EXCEPT ![p] = Denied("createSeller", role)]
             /\ UNCHANGED <<dbSellers, dbSeq>>
        ELSE /\ dbSeq' = [dbSeq EXCEPT !.seller = @ + 1]
             /\ IF hasName(dbSellers, trim(name))
                THEN /\ proc' = [proc EXCEPT ![p] = ThrownBy("createSeller", NameTaken, role)]
                     /\ UNCHANGED dbSellers
                ELSE /\ dbSellers' = dbSellers \cup
                            {[id |-> dbSeq.seller + 1, name |-> trim(name),
                              commissionRuleId |-> 0]}
                     /\ proc' = [proc EXCEPT ![p] = DoneBy("createSeller", role)]
    /\ UNCHANGED <<parseVars, callVars, dbSales, dbPlans, dbUploads, dbRules,
                   dbConfigs, lastConfig, bcvVars>>

\* new Date(day + "T12:00:00.000Z") of the UTC day of a date.
noonUtc(date) == HoursPerDay * (date \div HoursPerDay) + 12

\* updateInstallation: requireAdmin and prisma.seller.findUnique.  The new
\* seller and plan are rows of the store; the other fields are kept.
UpdateInstallationBegin(p) ==
    /\ CanStart(p)
    /\ started' = started + 1
    /\ \E role \in Roles : \E s \in dbSales : \E seller \in dbSellers : \E plan \in dbPlans :
        proc' = [proc EXCEPT ![p] =
            IF ~requireAdmin(role) THEN Denied("updateInstallation", role)
            ELSE [op |-> "updateInstallation", pc |-> "findPlan", id |-> s.id,
                  sellerId |-> seller.id, sellerName |-> seller.name,
                  planId |-> plan.id, role |-> role]]
    /\ UNCHANGED <<parseVars, callVars, dbSales, dbSellers, dbPlans, dbUploads,
                   dbRules, dbConfigs, dbSeq, lastConfig, bcvVars>>

\* updateInstallation: prisma.plan.findUnique.
UpdateInstallationFindPlan(p) ==
    /\ proc[p].op = "updateInstallation" /\ proc[p].pc = "findPlan"
    /\ proc' = [proc EXCEPT ![p] =
           IF ~\E plan \in dbPlans : plan.id = proc[p].planId
           THEN Thrown("updateInstallation", "Plan not found")
           ELSE [op |-> "updateInstallation", pc |-> "update", id |-> proc[p].id,
                 sellerId |-> proc[p].sellerId, sellerName |-> proc[p].sellerName,
                 planId |-> proc[p].planId,
                 planName |-> rowOfId(dbPlans, proc[p].planId).name]]
    /\ UNCHANGED <<parseVars, callVars, dbSales, dbSellers, dbPlans, dbUploads,
                   dbRules, dbConfigs, dbSeq, started, lastConfig, bcvVars>>

\* The row prisma.sale.update writes.
updatedSale(s, u) ==
    [s EXCEPT !.transactionDate = noonUtc(s.transactionDate),
              !.sellerName = u.sellerName, !.plan = u.planName,
              !.sellerId = u.sellerId, !.planId = u.planId]

\* updateInstallation: prisma.sale.update; the sale or the plan may be gone.
UpdateInstallationWrite(p) ==
    /\ proc[p].op = "updateInstallation" /\ proc[p].pc = "update"
    /\ IF ~\E s \in dbSales : s.id = proc[p].id
       THEN /\ proc' = [proc EXCEPT ![p] =
                   Thrown("updateInstallation", "Record to update not found")]
            /\ UNCHANGED dbSales
       ELSE IF ~\E plan \in dbPlans : plan.id = proc[p].planId
       THEN /\ proc' = [proc EXCEPT ![p] =
                   Thrown("updateInstallation",
                          "Foreign key constraint violated: Sale_planId_fkey")]
            /\ UNCHANGED dbSales
       ELSE /\ dbSales' = {IF s.id = proc[p].id THEN updatedSale(s, proc[p]) ELSE s :
                               s \in dbSales}
            /\ proc' = [proc EXCEPT ![p] =
                   [op |-> "updateInstallation", pc |-> "done", ok |-> TRUE]]
    /\ UNCHANGED <<parseVars, callVars, dbSellers, dbPlans, dbUploads, dbRules,
                   dbConfigs, dbSeq, started, lastConfig, bcvVars>>

\* deleteInstallation: requireAdmin and one delete.
DeleteInstallation(p) ==
    /\ CanStart(p)
    /\ started' = started + 1
    /\ \E role \in Roles : \E s \in dbSales :
        IF ~requireAdmin(role)
        THEN /\ proc' = [proc EXCEPT ![p] = Denied("deleteInstallation", role)]
             /\ UNCHANGED dbSales
        ELSE /\ dbSales' = dbSales \ {s}
             /\ proc' = [proc EXCEPT ![p] = DoneBy("deleteInstallation", role)]
    /\ UNCHANGED <<parseVars, callVars, dbSellers, dbPlans, dbUploads, dbRules,
                   dbConfigs, dbSeq, lastConfig, bcvVars>>

\* The number of requests SpecAdmin starts.
MaxAdminCalls == 2

\* The store after a.xlsx was uploaded and seller Bob and rule r1 were
\* created: plan R200 is not stored yet.
InitAdmin ==
    /\ tz = -4 /\ sheet = <<>> /\ ppc = "idle" /\ colMap = <<>> /\ idx = 0
    /\ sales = <<>> /\ skippedRows = 0 /\ duplicateRows = 0 /\ duplicates = <<>>
    /\ seenKeys = {} /\ rowLog = <<>> /\ result = EmptyResult
    /\ CallIdle
    /\ BcvIdle
    /\ dbUploads = {[id |-> 1, fileName |-> "a.xlsx"]}
    /\ dbRules = {ruleRow(1, "r1", SeedRule)}
    /\ dbSellers = {[id |-> 1, name |-> S("Ana"), commissionRuleId |-> 0],
                    [id |-> 2, name |-> S("Bob"), commissionRuleId |-> 1]}
    /\ dbPlans = {[id |-> 1, name |-> S("R100"), price |-> 40]}
    /\ dbSales = {storedSale(1, SeedSales[1], 1, 1, 1)}
    /\ dbConfigs = {}
    /\ dbSeq = [sale |-> 1, seller |-> 2, plan |-> 1, upload |-> 1, rule |-> 1, config |-> 0]
    /\ proc = [p \in Procs |-> Idle]
    /\ started = 0 /\ lastConfig = NoConfig

\* A request that calls requireAdmin begins.
AdminBegin(p) ==
    \/ started < MaxAdminCalls /\ UploadBegin(p)
    \/ started < MaxAdminCalls /\ DeleteUpload(p)
    \/ started < MaxAdminCalls /\ ConfigUpdateBegin(p)
    \/ started < MaxAdminCalls /\ CreateCommissionRule(p)
    \/ started < MaxAdminCalls /\ UpdateCommissionRule(p)
    \/ started < MaxAdminCalls /\ DeleteCommissionRule(p)
    \/ started < MaxAdminCalls /\ AssignRuleToSeller(p)
    \/ started < MaxAdminCalls /\ CreatePlan(p)
    \/ started < MaxAdminCalls /\ UpdatePlanNameBegin(p)
    \/ started < MaxAdminCalls /\ DeletePlanBegin(p)
    \/ started < MaxAdminCalls /\ CreateSeller(p)
    \/ started < MaxAdminCalls /\ UpdateSellerBegin(p)
    \/ started < MaxAdminCalls /\ UpdateInstallationBegin(p)
    \/ started < MaxAdminCalls /\ DeleteInstallation(p)

NextAdmin ==
    \E p \in Procs :
        \/ AdminBegin(p)
        \/ UploadFindMany(p)
        \/ UpsertSeller(p)
        \/ PlanFind(p)
        \/ PlanCreate(p)
        \/ UploadCreate(p)
        \/ UploadThrow(p)
        \/ ConfigUpdateFind(p)
        \/ ConfigUpdateWrite(p)
        \/ UpdatePlanSync(p)
        \/ DeletePlanDelete(p)
        \/ UpdateSellerSync(p)
        \/ UpdateInstallationFindPlan(p)
        \/ UpdateInstallationWrite(p)

SpecAdmin == InitAdmin /\ [][NextAdmin]_vars


\* The actions that call requireAdmin.
AdminOps ==
    {"uploadFile", "deleteUpload", "updateCommissionConfig", "createCommissionRule",
     "updateCommissionRule", "deleteCommissionRule", "assignRuleToSeller", "createPlan",
     "updatePlan", "deletePlan", "createSeller", "updateSeller", "updateInstallation",
     "deleteInstallation"}

\* The stored sales, sellers, plans, rules, config and uploads.
Store == <<dbSales, dbSellers, dbPlans, dbRules, dbConfigs, dbUploads>>

\* The step begins a request of process p whose caller is not an admin.
BeganByOther(p) ==
    /\ Free(p)
    /\ \A q \in Procs \ {p} : proc'[q] = proc[q]
    /\ proc'[p].op \in AdminOps
    /\ "role" \in DOMAIN proc'[p]
    /\ proc'[p].role # "admin"

BeganByAdmin(p) ==
    /\ Free(p)
    /\ \A q \in Procs \ {p} : proc'[q] = proc[q]
    /\ proc'[p].op \in AdminOps
    /\ "role" \in DOMAIN proc'[p]
    /\ proc'[p].role = "admin"

\* C27: every step that begins a request of an action that calls
\* requireAdmin is made by an admin, or it ends the request with the
\* unauthorized error and leaves the stored sales, sellers, plans, rules,
\* config and uploads unchanged
C27_NonAdminIsRejectedFirst ==
    [][started' # started =>
          \E p \in Procs :
              \/ BeganByAdmin(p)
              \/ /\ BeganByOther(p)
                 /\ proc'[p] = Denied(proc'[p].op, proc'[p].role)
                 /\ Store' = Store]_vars

\* An agent's updateInstallation was rejected on a store in which an admin's
\* deleteCommissionRule has removed the rule.
C27_Witness ==
    \E p, q \in Procs :
        /\ proc[p] = Denied("updateInstallation", "agent")
        /\ proc[q].op = "deleteCommissionRule" /\ proc[q].pc = "done" /\ proc[q].ok
        /\ dbRules = {}

-----------------------------------------------------------------------------
(***************************************************************************)
(* Specification SpecDetail: createInstallation and the week-filtered      *)
(* getSellerDetail, on the store of SpecReport                             *)
(***************************************************************************)

\* The days createInstallation is called with, as days since the epoch:
\* Wednesday 13, Friday 15 and Saturday 16 March 2024.
InstallDays == {19795, 19797, 19798}

\* The Sale row createInstallation writes; the fields other than the date,
\* the seller and the plan are those of a stored sale, uploadId 0 is null.
createdSale(id, day, seller, plan) ==
    storedSale(id,
               [SeedSales[1] EXCEPT !.transactionDate = noonUtc(HoursPerDay * day),
                                    !.sellerName = seller.name, !.plan = plan.name],
               0, seller.id, plan.id)

\* createInstallation: seller.findUnique, plan.findUnique and sale.create.
\* No action of this specification changes a seller or a plan, so the three
\* statements are one step.
CreateInstallation(p) ==
    /\ CanStart(p)
    /\ started' = started + 1
    /\ \E day \in InstallDays : \E seller \in dbSellers : \E plan \in dbPlans :
        /\ dbSales' = dbSales \cup {createdSale(dbSeq.sale + 1, day, seller, plan)}
        /\ dbSeq' = [dbSeq EXCEPT !.sale = @ + 1]
        /\ proc' = [proc EXCEPT ![p] =
               [op |-> "createInstallation", pc |-> "done", ok |-> TRUE,
                out |-> dbSeq.sale + 1]]
    /\ UNCHANGED <<parseVars, callVars, dbSellers, dbPlans, dbUploads, dbRules,
                   dbConfigs, lastConfig, bcvVars>>

\* The weeks the seller page offers: the week of each sale of the seller.
weeksOfSeller(sellerId) ==
    {getWeekRange(s.transactionDate, tz) : s \in {r \in dbSales : r.sellerId = sellerId}}

\* getSellerDetail called with the start and end of a week, or without:
\* seller.findUnique; the two reads of its Promise.all are pending.  The
\* instants pass through toISOString and new Date unchanged.
DetailBegin(p) ==
    /\ CanStart(p)
    /\ started' = started + 1
    /\ \E seller \in dbSellers : \E week \in weeksOfSeller(seller.id) \cup {NoWeek} :
        proc' = [proc EXCEPT ![p] =
            [op |-> "getSellerDetail", pc |-> "reading",
             pending |-> {"detail", "config"},
             sellerId |-> seller.id, sellerRule |-> commissionRuleOf(seller, dbRules),
             week |-> week, read |-> {}, seen |-> {}, config |-> DefaultConfig]]
    /\ UNCHANGED <<parseVars, callVars, dbSales, dbSellers, dbPlans, dbUploads,
                   dbRules, dbConfigs, dbSeq, lastConfig, bcvVars>>

\* where: sellerId, and transactionDate gte weekStart and lte weekEnd when
\* both are given.
detailWhere(s, sellerId, week) ==
    /\ s.sellerId = sellerId
    /\ week.present => (s.transactionDate >= week.start /\ s.transactionDate <= week.end)

\* prisma.sale.findMany of getSellerDetail.  History: seen is the Sale table
\* the query ran on.
DetailReadSales(p) ==
    /\ Reading(p, "detail") /\ proc[p].op = "getSellerDetail"
    /\ proc' = [proc EXCEPT
           ![p].pending = @ \ {"detail"},
           ![p].read = {r \in salesWithPrice :
                            detailWhere(r.sale, proc[p].sellerId, proc[p].week)},
           ![p].seen = dbSales]
    /\ UNCHANGED <<parseVars, callVars, dbSales, dbSellers, dbPlans, dbUploads,
                   dbRules, dbConfigs, dbSeq, started, lastConfig, bcvVars>>

\* The transactions getSellerDetail returns.
detailOf(read, config, rule) ==
    {reportEntry(r.sale.id,
                 resolveCommissions(r.sale.installationType, r.price, rule, config)) :
         r \in read}

\* The two reads are in: totalSales and the transactions are returned.
DetailReturn(p) ==
    /\ proc[p].op = "getSellerDetail" /\ proc[p].pc = "reading"
    /\ proc[p].pending = {}
    /\ proc' = [proc EXCEPT ![p] =
           [op |-> "getSellerDetail", pc |-> "done", ok |-> TRUE,
            sellerId |-> proc[p].sellerId, week |-> proc[p].week,
            totalSales |-> Cardinality(proc[p].read),
            out |-> detailOf(proc[p].read, proc[p].config, proc[p].sellerRule),
            seen |-> proc[p].seen]]
    /\ UNCHANGED <<parseVars, callVars, dbSales, dbSellers, dbPlans, dbUploads,
                   dbRules, dbConfigs, dbSeq, started, lastConfig, bcvVars>>

NextDetail ==
    \E p \in Procs :
        \/ CreateInstallation(p)
        \/ DetailBegin(p)
        \/ DetailReadSales(p)
        \/ ReadConfig(p)
        \/ CreateConfig(p)
        \/ DetailReturn(p)

SpecDetail == InitReport /\ [][NextDetail]_vars

\* The sales of the seller that isDateInWeek places in the week.
salesInWeek(table, sellerId, week) ==
    {s.id : s \in {r \in table : /\ r.sellerId = sellerId
                                 /\ isDateInWeek(r.transactionDate, week, tz)}}

\* C28: a getSellerDetail called with the start and end of a week returns
\* every sale of the seller whose transaction date isDateInWeek places in
\* that week, a sale stored at 12:00 UTC of the week's Friday included
C28_WeekReportHasEverySaleOfWeek ==
    \A p \in Procs :
        (proc[p].op = "getSellerDetail" /\ proc[p].pc = "done" /\ proc[p].week.present) =>
            salesInWeek(proc[p].seen, proc[p].sellerId, proc[p].week)
                \subseteq {e.id : e \in proc[p].out}

-----------------------------------------------------------------------------
(***************************************************************************)
(* Specification SpecRules: reports that may overlap the creation, edit,   *)
(* deletion and assignment of commission rules, on the store of SpecReport *)
(***************************************************************************)

NextRules ==
    \E p \in Procs :
        \/ ReportBegin(p)
        \/ ReadSales(p)
        \/ ReadConfig(p)
        \/ CreateConfig(p)
        \/ ReadRules(p)
        \/ ReportReturn(p)
        \/ CreateCommissionRule(p)
        \/ UpdateCommissionRule(p)
        \/ DeleteCommissionRule(p)
        \/ AssignRuleToSeller(p)

SpecRules == InitReport /\ [][NextRules]_vars

\* The sales of a table whose seller has no rule in the table of sellers.
salesWithoutRule(store) ==
    {s \in store.sales : rowOfId(store.sellers, s.sellerId).commissionRuleId = 0}

\* The report's entry of a sale computed from the config alone.
entryFromConfig(s, store, config) ==
    reportEntry(s.id,
                resolveCommissions(s.installationType, rowOfId(store.plans, s.planId).price,
                                   NoRule, config))

\* C29: a seller's commissionRuleId is null or the id of one stored rule;
\* once deleteCommissionRule has removed a rule no seller is assigned to it;
\* and a report that no edit overlaps lists, for every sale of a seller
\* without a rule, the commissions resolveCommissions gives from the
\* config with no rule
C29_NoRuleFallsBackToConfig ==
    /\ \A s \in dbSellers :
           s.commissionRuleId # 0 =>
               Cardinality({r \in dbRules : r.id = s.commissionRuleId}) = 1
    /\ \A p \in Procs :
           (proc[p].op = "deleteCommissionRule" /\ proc[p].pc = "done" /\ proc[p].ok) =>
               /\ \A r \in dbRules : r.id # proc[p].id
               /\ \A s \in dbSellers : s.commissionRuleId # proc[p].id
    /\ \A p \in Procs :
           (proc[p].op = "getAllInstallations" /\ proc[p].pc = "done" /\ proc[p].clean) =>
               \A s \in salesWithoutRule(proc[p].seen) :
                   entryFromConfig(s, proc[p].seen, proc[p].config) \in proc[p].out

\* A report made after deleteCommissionRule removed the rule of Bob: the
\* entry of Bob's sale is the one of the config, which is not the one rule
\* r1 gave.
C29_Witness ==
    \E p, q \in Procs :
        /\ proc[q].op = "deleteCommissionRule" /\ proc[q].pc = "done" /\ proc[q].ok
        /\ proc[q].id = 1
        /\ proc[p].op = "getAllInstallations" /\ proc[p].pc = "done" /\ proc[p].clean
        /\ proc[p].seen.rules = {}
        /\ \E s \in salesWithoutRule(proc[p].seen) :
               /\ s.sellerId = 2
               /\ entryFromConfig(s, proc[p].seen, proc[p].config) \in proc[p].out
               /\ entryFromConfig(s, proc[p].seen, proc[p].config) #
                      reportEntry(s.id,
                          resolveCommissions(s.installationType,
                                             rowOfId(proc[p].seen.plans, s.planId).price,
                                             SeedRule, proc[p].config))

-----------------------------------------------------------------------------
(***************************************************************************)
(* Specification SpecReupload: deleteUpload and uploadFile requests made   *)
(* one after another, on the store two uploads have left                   *)
(***************************************************************************)

FileA == <<HeaderRow, RowJuan>>
FileB == <<HeaderRow, RowJuanAgain, RowLuis, RowJuan>>
FileC == <<HeaderRow, RowJuanPending>>

SellerAna == [id |-> 1, name |-> S("Ana"), commissionRuleId |-> 0]
SellerBob == [id |-> 2, name |-> S("Bob"), commissionRuleId |-> 0]
PlanR100 == [id |-> 1, name |-> S("R100"), price |-> 0]
PlanR200 == [id |-> 2, name |-> S("R200"), price |-> 0]

\* An uploadFile request at its return: the parsed file, the sales that
\* were not stored yet and the number of those that were.
UploadOf(rows, newSales, dbDuplicates) ==
    [result |-> parseExcelFile(rows, -4), newSales |-> newSales,
     dbDuplicates |-> dbDuplicates]

\* Two uploads made one after the other on an empty store: the files, the
\* requests at their return, and the sellers and plans they created.
FirstRun(name1, up1, name2, up2, sellers, plans) ==
    [uploads |-> {[id |-> 1, fileName |-> name1], [id |-> 2, fileName |-> name2]},
     request |-> <<up1, up2>>, sellers |-> sellers, plans |-> plans]

\* a.xlsx and then b.xlsx, whose sale of Juan is stored already; b.xlsx and
\* then a.xlsx, which adds nothing; a.xlsx and then c.xlsx, which has no
\* sale.
FirstRuns ==
    {FirstRun("a.xlsx", UploadOf(FileA, parseExcelFile(FileA, -4).sales, 0),
              "b.xlsx", UploadOf(FileB, <<parseExcelFile(FileB, -4).sales[2]>>, 1),
              {SellerAna, SellerBob}, {PlanR100, PlanR200}),
     FirstRun("b.xlsx", UploadOf(FileB, parseExcelFile(FileB, -4).sales, 0),
              "a.xlsx", UploadOf(FileA, <<>>, 1),
              {SellerAna, SellerBob}, {PlanR100, PlanR200}),
     FirstRun("a.xlsx", UploadOf(FileA, parseExcelFile(FileA, -4).sales, 0),
              "c.xlsx", UploadOf(FileC, <<>>, 0),
              {SellerAna}, {PlanR100})}

\* The Sale rows upload k of the run created.
firstSales(first, k) ==
    LET before == IF k = 1 THEN 0 ELSE Len(first.request[1].newSales)
        new == first.request[k].newSales
    IN  {storedSale(before + i, new[i], k, idOfName(first.sellers, new[i].sellerName),
                    idOfName(first.plans, new[i].plan)) : i \in 1..Len(new)}

\* The state of SpecUpload after the two uploads of a run have returned, the
\* first made by process 1 and the second by process 2; the requests are
\* counted from here.
InitReupload ==
    /\ tz = -4 /\ sheet = <<>> /\ ppc = "idle" /\ colMap = <<>> /\ idx = 0
    /\ sales = <<>> /\ skippedRows = 0 /\ duplicateRows = 0 /\ duplicates = <<>>
    /\ seenKeys = {} /\ rowLog = <<>> /\ result = EmptyResult
    /\ CallIdle
    /\ BcvIdle
    /\ \E first \in FirstRuns :
        /\ dbSales = firstSales(first, 1) \cup firstSales(first, 2)
        /\ dbSellers = first.sellers /\ dbPlans = first.plans /\ dbUploads = first.uploads
        /\ dbSeq = [sale |-> Cardinality(firstSales(first, 1) \cup firstSales(first, 2)),
                    seller |-> Cardinality(first.sellers), plan |-> Cardinality(first.plans),
                    upload |-> 2, rule |-> 0, config |-> 0]
        /\ proc = <<uploadReturn(first.request[1], 1), uploadReturn(first.request[2], 2)>>
    /\ dbRules = {} /\ dbConfigs = {}
    /\ started = 0 /\ lastConfig = NoConfig

\* The requests are made by process 1, one after another, so no
\* findOrCreatePlan meets a plan created since its lookup.
NextReupload ==
    \/ UploadBegin(1)
    \/ UploadFindMany(1)
    \/ UpsertSeller(1)
    \/ PlanFind(1)
    \/ PlanCreate(1)
    \/ UploadCreate(1)
    \/ DeleteUpload(1)

SpecReupload == InitReupload /\ [][NextReupload]_vars

\* A Sale row without its serial id and its upload.
transactionOf(s) == [s EXCEPT !.id = 0, !.uploadId = 0]

transactionsOf(rows) == {transactionOf(s) : s \in rows}

\* The run the state began with: process 2 holds the return of its second
\* upload.
RunOfState == CHOOSE first \in FirstRuns : proc[2] = uploadReturn(first.request[2], 2)

\* Process 1 has uploaded again the file of upload k, after upload k was
\* deleted and with nothing else done.
Reuploaded(first, k) ==
    /\ started = 2 /\ proc[1].op = "uploadFile" /\ proc[1].pc = "done" /\ proc[1].ok
    /\ dbUploads = {u \in first.uploads : u.id # k} \cup
           {[id |-> proc[1].out.uploadId, fileName |-> rowOfId(first.uploads, k).fileName]}
    /\ proc[1].out.uploadId = 3

\* C30: deleteUpload removes one upload and the sales of that upload and
\* nothing else; and when the file of a deleted upload is uploaded again
\* next, the new upload holds the transactions the deleted one held and
\* returns the dbDuplicates the first upload of the file returned
C30_ReuploadAfterDeleteRepeats ==
    /\ (started = 1 /\ proc[1].op = "deleteUpload" /\ proc[1].ok) =>
           \E k \in {1, 2} :
               /\ dbUploads = {u \in RunOfState.uploads : u.id # k}
               /\ dbSales = firstSales(RunOfState, 3 - k)
               /\ dbSellers = RunOfState.sellers /\ dbPlans = RunOfState.plans
               /\ dbRules = {} /\ dbConfigs = {}
    /\ \A k \in {1, 2} :
           Reuploaded(RunOfState, k) =>
               /\ transactionsOf({s \in dbSales : s.uploadId = 3})
                      = transactionsOf(firstSales(RunOfState, k))
               /\ proc[1].out.dbDuplicates = RunOfState.request[k].dbDuplicates
               /\ {s \in dbSales : s.uploadId # 3} = firstSales(RunOfState, 3 - k)
               /\ dbSellers = RunOfState.sellers /\ dbPlans = RunOfState.plans

\* b.xlsx was uploaded again after its upload, the second of the first, was
\* deleted: one sale stored, one duplicate of a stored sale.
C30_Witness ==
    /\ Reuploaded(RunOfState, 2)
    /\ rowOfId(RunOfState.uploads, 2).fileName = "b.xlsx"
    /\ proc[1].out.dbDuplicates = 1
    /\ Cardinality({s \in dbSales : s.uploadId = 3}) = 1
    /\ Cardinality(dbSales) = 2

=============================================================================
